---------------------------- MODULE Spec2Model ----------------------------
(***************************************************************************)
(* State-machine model of the Telegram wiki bot (src/src/index.ts):        *)
(* ingestion of channel/group messages into pending_messages, the periodic *)
(* batcher processMessages, the classifier adapter analyzeMessages and the *)
(* publish orchestrator publishPost with its two sinks (Notion, GitHub).   *)
(*                                                                         *)
(* Tables are sets of rows, as in SQL.  Every "await" of the source is a   *)
(* point where another handler or timer callback may run, so an async      *)
(* function is a process whose pc names the await it is suspended at.      *)
(* Time is counted in minutes.  Strings that the code builds or trims are  *)
(* sequences of tokens, so that concatenation and trim are computed.       *)
(***************************************************************************)
EXTENDS Integers, Sequences, FiniteSets, TLC

\* ------------------------------------------------------------------ bounds
\* the wall clock runs from 0 to MaxNow minutes
MaxNow == 2
\* an inbound message carries a date at most MaxLag minutes before its delivery
MaxLag == 1
\* rows of blog_posts ever inserted
MaxPosts == 2
\* pages / commits ever created at one sink
MaxSinkItems == 2
\* rows of monitored_sources ever inserted
MaxSources == 3

\* ------------------------------------------------------------- value sets
NULL == "NULL"
OWNER_USER_ID == 1
UserIds == {1, 2}
\* one monitored channel, Telegram message ids within it
ChatIds == {10}
MessageIds == {1, 2}
\* the invocations of processMessages that may be in flight together (the
\* timer callback does not wait for the previous invocation), and one handler
\* of the publish_<id> callback query
Ticks == {"tick1", "tick2"}
Handlers == {"cb1"}
Procs == Ticks \cup Handlers

VARIABLES
    now,                \* Date.now(), in minutes
    users,              \* table users: user_id -> [is_authorized]
    user_settings,      \* table user_settings: user_id -> row
    monitored_sources,  \* table monitored_sources: set of rows
    pending_messages,   \* table pending_messages: set of rows
    blog_posts,         \* table blog_posts: set of rows
    blog_posts_id_seq,  \* the SERIAL sequence behind blog_posts.id
    userStates,         \* the in-memory Map userStates: user_id -> state
    notion_pages,       \* the Notion database: post id of each page created
    github_commits,     \* the GitHub repo: post id of each commit created
    proc,               \* the async invocations in flight
    approve_invoked     \* post ids the publish_<id> callback was invoked for

vars == <<now, users, user_settings, monitored_sources, pending_messages,
          blog_posts, blog_posts_id_seq, userStates, notion_pages,
          github_commits, proc, approve_invoked>>

\* ---------------------------------------------------------------- helpers
Range(s) == {s[i] : i \in DOMAIN s}

Max(a, b) == IF a >= b THEN a ELSE b

\* JavaScript truthiness of a string-or-null value: '' and null are falsy
Truthy(s) == s # NULL /\ s # ""

\* the sequences that enumerate the finite set S once each, in any order
Orderings(S) ==
    {q \in [1..Cardinality(S) -> S] : \A i, j \in DOMAIN q : i # j => q[i] # q[j]}

\* ------------------------------------------------------- inbound messages
\* The shapes of Telegram message the transport delivers: plain text with an
\* author signature, a captioned photo from a user, a bare document posted
\* anonymously, and a service message with neither text nor media.
MessageShapes ==
    { [text |-> "a", caption |-> "", author_signature |-> "Ann",
       from_username |-> NULL, files |-> <<>>, message_thread_id |-> NULL],
      [text |-> "", caption |-> "c", author_signature |-> "",
       from_username |-> "bob", files |-> <<"f1">>, message_thread_id |-> "t7"],
      [text |-> "", caption |-> "", author_signature |-> "",
       from_username |-> NULL, files |-> <<"f2">>, message_thread_id |-> NULL],
      [text |-> "", caption |-> "", author_signature |-> "",
       from_username |-> NULL, files |-> <<>>, message_thread_id |-> NULL] }

FileIds == {"f1", "f2"}

getSenderName(message) ==
    IF message.author_signature # "" THEN <<message.author_signature>>
    ELSE IF message.from_username = NULL THEN <<"Unknown">>
    ELSE <<"@", message.from_username>>

extractMessageText(message) ==
    IF message.text # "" THEN message.text
    ELSE IF message.caption # "" THEN message.caption
    ELSE ""

getTopicId(message) == message.message_thread_id

\* ctx.telegram.getFileLink(fileId).href
getFileLink(fileId) == <<"https://api.telegram.org/file/", fileId>>

\* a faulty variant where one failed link fails the whole extraction, as
\* without the try/catch in collectFile (C32 must tell it from the code)
RECURSIVE extractMediaUrls_AllOrNothing(_, _)
extractMediaUrls_AllOrNothing(files, resolved) ==
    IF files = <<>> \/ ~(Range(files) \subseteq resolved) THEN <<>>
    ELSE <<getFileLink(Head(files))>> \o extractMediaUrls_AllOrNothing(Tail(files), resolved)

\* extractMediaUrls: one link per attachment, in attachment order; an
\* attachment whose link cannot be resolved (not in resolved) is left out
RECURSIVE extractMediaUrls(_, _)
extractMediaUrls(files, resolved) ==
    IF files = <<>> THEN <<>>
    ELSE (IF Head(files) \in resolved THEN <<getFileLink(Head(files))>> ELSE <<>>)
         \o extractMediaUrls(Tail(files), resolved)

\* a faulty variant, ON CONFLICT ... DO UPDATE: the later delivery overwrites
\* the row (C1 must tell it from the code)
InsertPendingMessage_DoUpdate(table, row) ==
    IF \E r \in table : r.source_id = row.source_id /\ r.message_id = row.message_id
    THEN {IF r.source_id = row.source_id /\ r.message_id = row.message_id
          THEN [row EXCEPT !.id = r.id] ELSE r : r \in table}
    ELSE table \cup {[row EXCEPT !.id = Cardinality(table) + 1]}

\* INSERT INTO pending_messages ... ON CONFLICT (source_id, message_id) DO NOTHING
InsertPendingMessage(table, row) ==
    IF \E r \in table : r.source_id = row.source_id /\ r.message_id = row.message_id
    THEN table
    ELSE table \cup {[row EXCEPT !.id = Cardinality(table) + 1]}

\* storePendingMessage(ctx, source, message): the table after the call
storePendingMessage(table, source, message, resolved) ==
    LET text      == extractMessageText(message)
        mediaUrls == extractMediaUrls(message.files, resolved)
    IN  IF text = "" /\ mediaUrls = <<>> THEN table
        ELSE InsertPendingMessage(table,
                [id |-> 0,
                 source_id |-> source.id,
                 message_id |-> message.message_id,
                 text |-> IF text = "" THEN NULL ELSE text,
                 media_urls |-> mediaUrls,
                 sender |-> getSenderName(message),
                 timestamp |-> message.date,
                 is_processed |-> FALSE])

\* the loop of handleIncomingMessage over the matching sources; resolvedFor
\* gives, per source, the attachments whose link resolves in that call
RECURSIVE storeForSources(_, _, _, _)
storeForSources(table, sources, message, resolvedFor) ==
    IF sources = <<>> THEN table
    ELSE storeForSources(
            storePendingMessage(table, Head(sources), message,
                                resolvedFor[Head(sources).id]),
            Tail(sources), message, resolvedFor)

\* a faulty variant without is_active = true in the WHERE clause (C31 must
\* tell it from the code)
MatchingSources_Inactive(chatId, topicId) ==
    {s \in monitored_sources :
        /\ s.chat_id = chatId
        /\ (topicId = NULL \/ s.topic_id = NULL \/ s.topic_id = topicId)}

\* SELECT * FROM monitored_sources WHERE chat_id = $1 AND is_active = true
\*   AND ($2::INT IS NULL OR topic_id IS NULL OR topic_id = $2)
MatchingSources(chatId, topicId) ==
    {s \in monitored_sources :
        /\ s.chat_id = chatId
        /\ s.is_active
        /\ (topicId = NULL \/ s.topic_id = NULL \/ s.topic_id = topicId)}

\* channel_post / group text update: handleIncomingMessage(ctx, message)
handleIncomingMessage(chatId, message, order, resolvedFor) ==
    /\ order \in Orderings(MatchingSources(chatId, getTopicId(message)))
    /\ pending_messages' = storeForSources(pending_messages, order, message, resolvedFor)
    /\ UNCHANGED <<now, users, user_settings, monitored_sources, blog_posts,
                   blog_posts_id_seq, userStates, notion_pages, github_commits,
                   proc, approve_invoked>>

\* ------------------------------------------------------ classifier adapter
\* What model.generateContent can answer.  kind: "error" (the request
\* rejects: network, quota), "text" (no {...} in the text), "badjson" ({...}
\* that JSON.parse rejects), "json" (an object).  A boolean field of the
\* object is "true", "false", "absent", or "string" (a non-empty string such
\* as "no"); a string field is absent, a number, a blank string or a string
\* with blanks around a word.
JsonBooleans == {"true", "false", "absent", "string"}
ShouldCombineValues == {"true", "absent"}
JsonStrings(tok) ==
    { [t |-> "absent", v |-> <<>>], [t |-> "number", v |-> <<>>],
      [t |-> "string", v |-> <<" ">>], [t |-> "string", v |-> <<" ", tok, " ">>] }

Responses ==
    [kind : {"json"}, shouldCombine : ShouldCombineValues, isInformational : JsonBooleans,
     suggestedTitle : JsonStrings("T"), combinedContent : JsonStrings("B")]
    \cup
    [kind : {"error", "text", "badjson"}, shouldCombine : {"absent"},
     isInformational : {"absent"}, suggestedTitle : {[t |-> "absent", v |-> <<>>]},
     combinedContent : {[t |-> "absent", v |-> <<>>]}]

\* Boolean(x) of a parsed JSON field
JsBoolean(x) == x \in {"true", "string"}

\* String.prototype.trim on a token string: blanks at both ends are dropped
RECURSIVE TrimStart(_)
TrimStart(s) == IF s # <<>> /\ Head(s) = " " THEN TrimStart(Tail(s)) ELSE s

RECURSIVE TrimEnd(_)
TrimEnd(s) ==
    IF s # <<>> /\ s[Len(s)] = " " THEN TrimEnd(SubSeq(s, 1, Len(s) - 1)) ELSE s

Trim(s) == TrimEnd(TrimStart(s))

\* parsed.field?.trim() ?? '' : a TypeError for a value that has no trim()
TrimThrows(f) == f.t = "number"
TrimOrEmpty(f) == IF f.t = "string" THEN Trim(f.v) ELSE <<>>

\* analyzeMessages(messages), given the model's answer: thrown is TRUE when
\* the call rejects, otherwise the AnalysisResult
analyzeMessages(response) ==
    IF \/ response.kind # "json"
       \/ TrimThrows(response.suggestedTitle)
       \/ TrimThrows(response.combinedContent)
    THEN [thrown |-> TRUE, shouldCombine |-> FALSE, isInformational |-> FALSE,
          suggestedTitle |-> <<>>, combinedContent |-> <<>>]
    ELSE [thrown |-> FALSE,
          shouldCombine |-> JsBoolean(response.shouldCombine),
          isInformational |-> JsBoolean(response.isInformational),
          suggestedTitle |-> TrimOrEmpty(response.suggestedTitle),
          combinedContent |-> TrimOrEmpty(response.combinedContent)]

\* ------------------------------------------------------------- store reads
DefaultSettings(userId) ==
    [user_id |-> userId, auto_publish |-> FALSE, combine_threshold_minutes |-> 5,
     notion_database_id |-> NULL, github_repo |-> NULL]

getUserSettings(userId) ==
    IF userId \in DOMAIN user_settings THEN user_settings[userId]
    ELSE DefaultSettings(userId)

isAuthorized(userId) == userId \in DOMAIN users /\ users[userId].is_authorized

\* SELECT pm.* FROM pending_messages pm JOIN monitored_sources ms
\*  ON pm.source_id = ms.id WHERE ms.user_id = $1 AND pm.is_processed = false
UnprocessedOf(userId) ==
    {m \in pending_messages :
        /\ ~m.is_processed
        /\ \E ms \in monitored_sources : ms.id = m.source_id /\ ms.user_id = userId}

\* ORDER BY pm.timestamp ASC: any order of the rows that ascends in timestamp
OrderByTimestamp(rows) ==
    {q \in Orderings(rows) :
        \A i, j \in DOMAIN q : i < j => q[i].timestamp <= q[j].timestamp}

\* a faulty variant without the window filter: every unprocessed row of the
\* owner is in the batch (C25 must tell it from the code)
RecentMessages_NoFilter(rows, settings, dateNow) == rows

\* a faulty variant, a strict comparison: a row exactly at the cutoff is
\* dropped (C7 must tell it from the code)
RecentMessages_Strict(rows, settings, dateNow) ==
    LET timeThreshold == dateNow - settings.combine_threshold_minutes
        Recent(m) == m.timestamp > timeThreshold
    IN  SelectSeq(rows, Recent)

\* rows.filter(m => toDate(m.timestamp) >= timeThreshold)
RecentMessages(rows, settings, dateNow) ==
    LET timeThreshold == dateNow - settings.combine_threshold_minutes
        Recent(m) == m.timestamp >= timeThreshold
    IN  SelectSeq(rows, Recent)

\* userStates.get(userId): the pending question of a private chat, a
\* UserState {type, postId?}; NoUserState stands for no entry in the Map
NoUserState == [type |-> "none", postId |-> 0]

\* ---------------------------------------------------------------- drafts
\* `**${m.sender ?? 'Unknown'}** (${toIsoString(m.timestamp)}):\n${m.text ?? ''}`
\* (a NULL sender column reads as the empty token string)
FallbackSegment(m) ==
    <<"**">> \o (IF m.sender = <<>> THEN <<"Unknown">> ELSE m.sender)
    \o <<"** (", ToString(m.timestamp), "):\n">>
    \o (IF m.text = NULL THEN <<>> ELSE <<m.text>>)

\* recentMessages.map(...).join('\n\n')
RECURSIVE FallbackContent(_)
FallbackContent(messages) ==
    IF messages = <<>> THEN <<>>
    ELSE IF Len(messages) = 1 THEN FallbackSegment(Head(messages))
    ELSE FallbackSegment(Head(messages)) \o <<"\n\n">> \o FallbackContent(Tail(messages))

\* a faulty variant that takes the media of the first message only (C30 must
\* tell it from the code)
FlatMedia_FirstOnly(messages) ==
    IF messages = <<>> THEN <<>> ELSE Head(messages).media_urls

\* recentMessages.flatMap(m => m.media_urls ?? [])
RECURSIVE FlatMedia(_)
FlatMedia(messages) ==
    IF messages = <<>> THEN <<>>
    ELSE Head(messages).media_urls \o FlatMedia(Tail(messages))

MessageIdsOf(messages) == [i \in DOMAIN messages |-> messages[i].id]

\* a faulty variant without the fallback, as in the earlier
\* telegram_wiki_bot.ts (C6 must tell it from the code)
DraftContent_NoFallback(analysis, messages) == analysis.combinedContent

\* analysis.combinedContent || fallbackContent
DraftContent(analysis, messages) ==
    IF analysis.combinedContent # <<>> THEN analysis.combinedContent
    ELSE FallbackContent(messages)

DraftTitle(analysis, dateNow) ==
    IF analysis.suggestedTitle # <<>> THEN analysis.suggestedTitle
    ELSE <<"Telegram Update ", ToString(dateNow)>>

\* a faulty variant that inserts every Draft as pending (C29 must tell it from
\* the code)
DraftStatus_Pending(settings) == "pending"

\* settings.auto_publish ? 'publishing' : 'pending'
DraftStatus(settings) == IF settings.auto_publish THEN "publishing" ELSE "pending"

\* the parameters of INSERT INTO blog_posts (...) of processMessages
BuildDraft(userId, settings, analysis, messages, dateNow) ==
    [id |-> 0,
     user_id |-> userId,
     title |-> DraftTitle(analysis, dateNow),
     content |-> DraftContent(analysis, messages),
     media_urls |-> FlatMedia(messages),
     source_messages |-> MessageIdsOf(messages),
     notion_page_id |-> NULL,
     github_commit_sha |-> NULL,
     status |-> DraftStatus(settings),
     published_at |-> NULL]

NoDraft ==
    [id |-> 0, user_id |-> 0, title |-> <<>>, content |-> <<>>, media_urls |-> <<>>,
     source_messages |-> <<>>, notion_page_id |-> NULL, github_commit_sha |-> NULL,
     status |-> "none", published_at |-> NULL]

\* -------------------------------------------------------------- processes
\* The locals of an invocation of processMessages (Ticks) or of the
\* publish_<id> handler (Handlers), and of the publishPost it calls.
IdleProc ==
    [pc |-> "idle", users |-> <<>>, settings |-> DefaultSettings(0),
     recentMessages |-> <<>>, draft |-> NoDraft, postId |-> 0, userId |-> 0,
     post |-> NoDraft, notionPageId |-> NULL, githubSha |-> NULL]

PublishPcs == {"pub_begin", "pub_load", "pub_notion", "pub_github", "pub_record",
               "pub_failed"}

\* `continue`, or the end of an iteration of the loop over users.rows
Continue(pr) ==
    IF Len(pr.users) <= 1 THEN IdleProc
    ELSE [IdleProc EXCEPT !.pc = "select", !.users = Tail(pr.users)]

\* publishPost returns: into the loop of processMessages, or into the handler,
\* which answers the callback query and ends
Return(p, pr) == IF p \in Ticks THEN Continue(pr) ELSE IdleProc

\* a faulty variant that marks by source, WHERE source_id IN (the sources of
\* the batch): rows queued after the snapshot are marked too (C27 must tell it
\* from the code)
MarkProcessed_BySource(table, ids) ==
    {IF \E b \in table : b.id \in ids /\ b.source_id = r.source_id
     THEN [r EXCEPT !.is_processed = TRUE] ELSE r : r \in table}

\* a faulty variant that marks every unprocessed row, the rows outside the
\* window too (C5 must tell it from the code)
MarkProcessed_All(table, ids) ==
    {[r EXCEPT !.is_processed = TRUE] : r \in table}

\* UPDATE pending_messages SET is_processed = true WHERE id = ANY($1)
MarkProcessed(table, ids) ==
    {IF r.id \in ids THEN [r EXCEPT !.is_processed = TRUE] ELSE r : r \in table}

\* UPDATE blog_posts SET status = $1 WHERE id = $2
SetStatus(table, postId, status) ==
    {IF r.id = postId THEN [r EXCEPT !.status = status] ELSE r : r \in table}

\* UPDATE blog_posts SET status = 'published', notion_page_id = $1,
\*   github_commit_sha = $2, published_at = NOW() WHERE id = $3
SetPublished(table, postId, notionPageId, githubSha, dateNow) ==
    {IF r.id = postId
     THEN [r EXCEPT !.status = "published", !.notion_page_id = notionPageId,
                    !.github_commit_sha = githubSha,
                    !.published_at = ToString(dateNow)]
     ELSE r : r \in table}

\* ------------------------------------------------------- processMessages
\* setInterval callback (and the call in main): processMessages() starts and
\* reads SELECT DISTINCT user_id FROM user_settings, in the order the store
\* returns the rows
processMessages_start(p, order) ==
    /\ p \in Ticks
    /\ proc[p].pc = "idle"
    /\ order \in Orderings(DOMAIN user_settings)
    /\ proc' = [proc EXCEPT ![p] =
                    IF order = <<>> THEN IdleProc
                    ELSE [IdleProc EXCEPT !.pc = "select", !.users = order]]
    /\ UNCHANGED <<now, users, user_settings, monitored_sources, pending_messages,
                   blog_posts, blog_posts_id_seq, userStates, notion_pages,
                   github_commits, approve_invoked>>

\* one iteration up to the classifier call: settings, the unprocessed rows,
\* the window filter
processMessages_select(p, rows) ==
    /\ proc[p].pc = "select"
    /\ LET user     == Head(proc[p].users)
           settings == getUserSettings(user)
           recent   == RecentMessages(rows, settings, now)
       IN  /\ rows \in OrderByTimestamp(UnprocessedOf(user))
           /\ proc' = [proc EXCEPT ![p] =
                IF rows = <<>> \/ recent = <<>> THEN Continue(proc[p])
                ELSE [proc[p] EXCEPT !.pc = "analyze", !.settings = settings,
                                     !.recentMessages = recent]]
    /\ UNCHANGED <<now, users, user_settings, monitored_sources, pending_messages,
                   blog_posts, blog_posts_id_seq, userStates, notion_pages,
                   github_commits, approve_invoked>>

\* await analyzeMessages(recentMessages) settles; a rejection is caught by the
\* try/catch around the whole loop, which ends the invocation
processMessages_analyze(p, response) ==
    /\ proc[p].pc = "analyze"
    /\ response \in Responses
    /\ LET analysis == analyzeMessages(response)
           pr       == proc[p]
       IN  proc' = [proc EXCEPT ![p] =
                IF analysis.thrown THEN IdleProc
                ELSE IF ~analysis.isInformational
                     THEN [pr EXCEPT !.pc = "mark_skipped"]
                     ELSE [pr EXCEPT !.pc = "insert",
                              !.draft = BuildDraft(Head(pr.users), pr.settings,
                                            analysis, pr.recentMessages, now)]]
    /\ UNCHANGED <<now, users, user_settings, monitored_sources, pending_messages,
                   blog_posts, blog_posts_id_seq, userStates, notion_pages,
                   github_commits, approve_invoked>>

\* not informational: the rows of the batch are marked, no post is made
processMessages_mark_skipped(p) ==
    /\ proc[p].pc = "mark_skipped"
    /\ pending_messages' =
            MarkProcessed(pending_messages, Range(MessageIdsOf(proc[p].recentMessages)))
    /\ proc' = [proc EXCEPT ![p] = Continue(proc[p])]
    /\ UNCHANGED <<now, users, user_settings, monitored_sources, blog_posts,
                   blog_posts_id_seq, userStates, notion_pages, github_commits,
                   approve_invoked>>

\* INSERT INTO blog_posts ... RETURNING id
processMessages_insert(p) ==
    /\ proc[p].pc = "insert"
    /\ blog_posts_id_seq < MaxPosts
    /\ blog_posts_id_seq' = blog_posts_id_seq + 1
    /\ blog_posts' = blog_posts \cup {[proc[p].draft EXCEPT !.id = blog_posts_id_seq + 1]}
    /\ proc' = [proc EXCEPT ![p] = [proc[p] EXCEPT !.pc = "mark_batched",
                                        !.postId = blog_posts_id_seq + 1,
                                        !.draft = NoDraft]]
    /\ UNCHANGED <<now, users, user_settings, monitored_sources, pending_messages,
                   userStates, notion_pages, github_commits, approve_invoked>>

\* a faulty variant without the try/catch: the rejection leaves
\* processMessages, and the unhandled rejection ends the process (C16 must
\* tell it from the code)
processMessages_insert_fails_Uncaught(p) ==
    /\ proc[p].pc = "insert"
    /\ proc' = [proc EXCEPT ![p] = [IdleProc EXCEPT !.pc = "rejected"]]
    /\ UNCHANGED <<now, users, user_settings, monitored_sources, pending_messages,
                   blog_posts, blog_posts_id_seq, userStates, notion_pages,
                   github_commits, approve_invoked>>

\* a faulty variant that marks the rows before the INSERT: when the INSERT
\* rejects, the rows of the batch are already processed (C21 must tell it
\* from the code)
processMessages_insert_fails_Marked(p) ==
    /\ proc[p].pc = "insert"
    /\ pending_messages' =
            MarkProcessed(pending_messages, Range(MessageIdsOf(proc[p].recentMessages)))
    /\ proc' = [proc EXCEPT ![p] = IdleProc]
    /\ UNCHANGED <<now, users, user_settings, monitored_sources, blog_posts,
                   blog_posts_id_seq, userStates, notion_pages, github_commits,
                   approve_invoked>>

\* the INSERT rejects (store error): caught by the try/catch around the loop
processMessages_insert_fails(p) ==
    /\ proc[p].pc = "insert"
    /\ proc' = [proc EXCEPT ![p] = IdleProc]
    /\ UNCHANGED <<now, users, user_settings, monitored_sources, pending_messages,
                   blog_posts, blog_posts_id_seq, userStates, notion_pages,
                   github_commits, approve_invoked>>

\* a faulty variant that clears the queue of the rows it has batched, DELETE
\* FROM pending_messages WHERE id = ANY($1), instead of marking them (C28 must
\* tell it from the code)
processMessages_mark_batched_Delete(p, notified) ==
    /\ proc[p].pc = "mark_batched"
    /\ notified \in BOOLEAN
    /\ pending_messages' =
            {r \in pending_messages : r.id \notin Range(MessageIdsOf(proc[p].recentMessages))}
    /\ LET pr == proc[p]
       IN  proc' = [proc EXCEPT ![p] =
                IF pr.settings.auto_publish
                THEN [IdleProc EXCEPT !.pc = "pub_begin", !.users = pr.users,
                                      !.postId = pr.postId,
                                      !.userId = Head(pr.users)]
                ELSE IF notified THEN Continue(pr) ELSE IdleProc]
    /\ UNCHANGED <<now, users, user_settings, monitored_sources, blog_posts,
                   blog_posts_id_seq, userStates, notion_pages, github_commits,
                   approve_invoked>>

\* a faulty variant that calls publishPost whatever auto_publish says (C8 must
\* tell it from the code)
processMessages_mark_batched_Publish(p, notified) ==
    /\ proc[p].pc = "mark_batched"
    /\ notified \in BOOLEAN
    /\ pending_messages' =
            MarkProcessed(pending_messages, Range(MessageIdsOf(proc[p].recentMessages)))
    /\ proc' = [proc EXCEPT ![p] =
                    [IdleProc EXCEPT !.pc = "pub_begin", !.users = proc[p].users,
                                     !.postId = proc[p].postId,
                                     !.userId = Head(proc[p].users)]]
    /\ UNCHANGED <<now, users, user_settings, monitored_sources, blog_posts,
                   blog_posts_id_seq, userStates, notion_pages, github_commits,
                   approve_invoked>>

\* the rows of the batch are marked; then publishPost is called (auto publish)
\* or the owner is told of the draft; a rejected sendMessage ends the invocation
processMessages_mark_batched(p, notified) ==
    /\ proc[p].pc = "mark_batched"
    /\ notified \in BOOLEAN
    /\ pending_messages' =
            MarkProcessed(pending_messages, Range(MessageIdsOf(proc[p].recentMessages)))
    /\ LET pr == proc[p]
       IN  proc' = [proc EXCEPT ![p] =
                IF pr.settings.auto_publish
                THEN [IdleProc EXCEPT !.pc = "pub_begin", !.users = pr.users,
                                      !.postId = pr.postId,
                                      !.userId = Head(pr.users)]
                ELSE IF notified THEN Continue(pr) ELSE IdleProc]
    /\ UNCHANGED <<now, users, user_settings, monitored_sources, blog_posts,
                   blog_posts_id_seq, userStates, notion_pages, github_commits,
                   approve_invoked>>

\* ------------------------------------------------------------ publishPost
\* the pc after the settings are read or a sink has answered: the next
\* configured sink, or the UPDATE that records the result
AfterNotion(settings) == IF Truthy(settings.github_repo) THEN "pub_github" ELSE "pub_record"
FirstSink(settings) ==
    IF Truthy(settings.notion_database_id) THEN "pub_notion" ELSE AfterNotion(settings)

\* UPDATE blog_posts SET status = 'publishing' WHERE id = $2 (before the try)
publishPost_begin(p) ==
    /\ proc[p].pc = "pub_begin"
    /\ blog_posts' = SetStatus(blog_posts, proc[p].postId, "publishing")
    /\ proc' = [proc EXCEPT ![p] = [proc[p] EXCEPT !.pc = "pub_load"]]
    /\ UNCHANGED <<now, users, user_settings, monitored_sources, pending_messages,
                   blog_posts_id_seq, userStates, notion_pages, github_commits,
                   approve_invoked>>

\* SELECT * FROM blog_posts WHERE id = $1 AND user_id = $2, getUserSettings,
\* and the call of the first configured sink
publishPost_load(p) ==
    /\ proc[p].pc = "pub_load"
    /\ LET pr       == proc[p]
           found    == {r \in blog_posts : r.id = pr.postId /\ r.user_id = pr.userId}
           settings == getUserSettings(pr.userId)
       IN  proc' = [proc EXCEPT ![p] =
                IF found = {} THEN Return(p, pr)
                ELSE [pr EXCEPT !.pc = FirstSink(settings), !.settings = settings,
                                !.post = CHOOSE r \in found : TRUE]]
    /\ UNCHANGED <<now, users, user_settings, monitored_sources, pending_messages,
                   blog_posts, blog_posts_id_seq, userStates, notion_pages,
                   github_commits, approve_invoked>>

\* await publishToNotion(...) settles: notion.pages.create made a page and
\* returned its id, or rejected
publishPost_notion(p, ok) ==
    /\ proc[p].pc = "pub_notion"
    /\ ok \in BOOLEAN
    /\ ok => Len(notion_pages) < MaxSinkItems
    /\ notion_pages' = IF ok THEN Append(notion_pages, proc[p].post.id) ELSE notion_pages
    /\ proc' = [proc EXCEPT ![p] =
            IF ok THEN [proc[p] EXCEPT !.pc = AfterNotion(proc[p].settings),
                                       !.notionPageId = ToString(Len(notion_pages) + 1)]
            ELSE [proc[p] EXCEPT !.pc = "pub_failed"]]
    /\ UNCHANGED <<now, users, user_settings, monitored_sources, pending_messages,
                   blog_posts, blog_posts_id_seq, userStates, github_commits,
                   approve_invoked>>

\* await publishToGitHub(...) settles: a commit was made and its sha returned,
\* or the call rejected
publishPost_github(p, ok) ==
    /\ proc[p].pc = "pub_github"
    /\ ok \in BOOLEAN
    /\ ok => Len(github_commits) < MaxSinkItems
    /\ github_commits' = IF ok THEN Append(github_commits, proc[p].post.id)
                         ELSE github_commits
    /\ proc' = [proc EXCEPT ![p] =
            IF ok THEN [proc[p] EXCEPT !.pc = "pub_record",
                                       !.githubSha = ToString(Len(github_commits) + 1)]
            ELSE [proc[p] EXCEPT !.pc = "pub_failed"]]
    /\ UNCHANGED <<now, users, user_settings, monitored_sources, pending_messages,
                   blog_posts, blog_posts_id_seq, userStates, notion_pages,
                   approve_invoked>>

\* the UPDATE to 'published' with both sink ids, then the owner is told; a
\* rejected sendMessage is caught by the same catch as a sink error
publishPost_record(p, notified) ==
    /\ proc[p].pc = "pub_record"
    /\ notified \in BOOLEAN
    /\ blog_posts' = SetPublished(blog_posts, proc[p].postId, proc[p].notionPageId,
                                  proc[p].githubSha, now)
    /\ proc' = [proc EXCEPT ![p] =
            IF notified THEN Return(p, proc[p])
            ELSE [proc[p] EXCEPT !.pc = "pub_failed"]]
    /\ UNCHANGED <<now, users, user_settings, monitored_sources, pending_messages,
                   blog_posts_id_seq, userStates, notion_pages, github_commits,
                   approve_invoked>>

\* a faulty variant that tries again after a failure: the invocation of a
\* tick goes back to the start of publishPost (C14 must tell it from the code)
publishPost_failed_Retry(p) ==
    /\ proc[p].pc = "pub_failed"
    /\ blog_posts' = SetStatus(blog_posts, proc[p].postId, "failed")
    /\ proc' = [proc EXCEPT ![p] =
            IF p \in Ticks
            THEN [proc[p] EXCEPT !.pc = "pub_begin", !.notionPageId = NULL,
                                 !.githubSha = NULL]
            ELSE Return(p, proc[p])]
    /\ UNCHANGED <<now, users, user_settings, monitored_sources, pending_messages,
                   blog_posts_id_seq, userStates, notion_pages, github_commits,
                   approve_invoked>>

\* catch: UPDATE blog_posts SET status = 'failed' WHERE id = $2
publishPost_failed(p) ==
    /\ proc[p].pc = "pub_failed"
    /\ blog_posts' = SetStatus(blog_posts, proc[p].postId, "failed")
    /\ proc' = [proc EXCEPT ![p] = Return(p, proc[p])]
    /\ UNCHANGED <<now, users, user_settings, monitored_sources, pending_messages,
                   blog_posts_id_seq, userStates, notion_pages, github_commits,
                   approve_invoked>>

\* bot.action(/publish_(\d+)/): approve; calls publishPost(postId, ctx.from.id)
publish_action(p, postId, userId) ==
    /\ p \in Handlers
    /\ proc[p].pc = "idle"
    /\ postId \in 1..MaxPosts
    /\ userId \in UserIds
    /\ proc' = [proc EXCEPT ![p] =
            [IdleProc EXCEPT !.pc = "pub_begin", !.postId = postId, !.userId = userId]]
    /\ approve_invoked' = approve_invoked \cup {postId}
    /\ UNCHANGED <<now, users, user_settings, monitored_sources, pending_messages,
                   blog_posts, blog_posts_id_seq, userStates, notion_pages,
                   github_commits>>

\* ---------------------------------------------------- commands and menus
\* a faulty variant, ON CONFLICT (user_id) DO UPDATE SET is_authorized =
\* EXCLUDED.is_authorized: /start resets the flag of an existing row (C36 must
\* tell it from the code)
upsertUsers_DoUpdate(table, userId) ==
    [u \in DOMAIN table \cup {userId} |->
        IF u = userId THEN [is_authorized |-> userId = OWNER_USER_ID] ELSE table[u]]

\* upsertUser: INSERT INTO users ... ON CONFLICT DO NOTHING (authorized only
\* when the user is the owner), INSERT INTO user_settings ... DO NOTHING
upsertUsers(table, userId) ==
    IF userId \in DOMAIN table THEN table
    ELSE table @@ (userId :> [is_authorized |-> userId = OWNER_USER_ID])

upsertUserSettings(table, userId) ==
    IF userId \in DOMAIN table THEN table
    ELSE table @@ (userId :> DefaultSettings(userId))

\* bot.start: upsertUser first, then the authorization check and the reply
bot_start(userId) ==
    /\ userId \in UserIds
    /\ users' = upsertUsers(users, userId)
    /\ user_settings' = upsertUserSettings(user_settings, userId)
    /\ UNCHANGED <<now, monitored_sources, pending_messages, blog_posts,
                   blog_posts_id_seq, userStates, notion_pages, github_commits,
                   proc, approve_invoked>>

\* /authorize <user_id> and /revoke <user_id>, obeyed for the owner only:
\* UPDATE users SET is_authorized = $granted WHERE user_id = $1
authorize_command(fromId, userId, granted) ==
    /\ fromId \in UserIds
    /\ userId \in UserIds
    /\ granted \in BOOLEAN
    /\ users' = IF fromId = OWNER_USER_ID /\ userId \in DOMAIN users
                THEN [users EXCEPT ![userId].is_authorized = granted]
                ELSE users
    /\ UNCHANGED <<now, user_settings, monitored_sources, pending_messages,
                   blog_posts, blog_posts_id_seq, userStates, notion_pages,
                   github_commits, proc, approve_invoked>>

\* bot.action('toggle_auto_publish'):
\* UPDATE user_settings SET auto_publish = NOT auto_publish WHERE user_id = $1
toggle_auto_publish(userId) ==
    /\ userId \in UserIds
    /\ user_settings' =
            IF isAuthorized(userId) /\ userId \in DOMAIN user_settings
            THEN [user_settings EXCEPT ![userId].auto_publish = ~@]
            ELSE user_settings
    /\ UNCHANGED <<now, users, monitored_sources, pending_messages, blog_posts,
                   blog_posts_id_seq, userStates, notion_pages, github_commits,
                   proc, approve_invoked>>

\* bot.action('set_combine_time'): the next private text is the answer
set_combine_time(userId) ==
    /\ userId \in UserIds
    /\ userStates' =
            IF isAuthorized(userId)
            THEN [userStates EXCEPT ![userId] = [type |-> "set_combine_time", postId |-> 0]]
            ELSE userStates
    /\ UNCHANGED <<now, users, user_settings, monitored_sources, pending_messages,
                   blog_posts, blog_posts_id_seq, notion_pages, github_commits,
                   proc, approve_invoked>>

\* bot.action('set_notion_db'): the next private text is the database id
set_notion_db(userId) ==
    /\ userId \in UserIds
    /\ userStates' =
            IF isAuthorized(userId)
            THEN [userStates EXCEPT ![userId] = [type |-> "set_notion_db", postId |-> 0]]
            ELSE userStates
    /\ UNCHANGED <<now, users, user_settings, monitored_sources, pending_messages,
                   blog_posts, blog_posts_id_seq, notion_pages, github_commits,
                   proc, approve_invoked>>

\* bot.action('set_github_repo'): the next private text is the repository
set_github_repo(userId) ==
    /\ userId \in UserIds
    /\ userStates' =
            IF isAuthorized(userId)
            THEN [userStates EXCEPT ![userId] = [type |-> "set_github_repo", postId |-> 0]]
            ELSE userStates
    /\ UNCHANGED <<now, users, user_settings, monitored_sources, pending_messages,
                   blog_posts, blog_posts_id_seq, notion_pages, github_commits,
                   proc, approve_invoked>>

\* /unsubscribe <source_id>:
\* UPDATE monitored_sources SET is_active = false WHERE id = $1 AND user_id = $2
unsubscribe_command(userId, sourceId) ==
    /\ userId \in UserIds
    /\ monitored_sources' =
            IF isAuthorized(userId)
            THEN {IF ms.id = sourceId /\ ms.user_id = userId
                  THEN [ms EXCEPT !.is_active = FALSE] ELSE ms : ms \in monitored_sources}
            ELSE monitored_sources
    /\ UNCHANGED <<now, users, user_settings, pending_messages, blog_posts,
                   blog_posts_id_seq, userStates, notion_pages, github_commits,
                   proc, approve_invoked>>

\* the arbiter of ON CONFLICT (user_id, chat_id, topic_id): the row of the
\* table that the unique index finds equal to the new row.  The index
\* compares with SQL equality, under which a NULL topic_id equals nothing,
\* itself included (UNIQUE without NULLS NOT DISTINCT)
ConflictingSources(table, row) ==
    {ms \in table :
        /\ ms.user_id = row.user_id
        /\ ms.chat_id = row.chat_id
        /\ ms.topic_id # NULL /\ row.topic_id # NULL /\ ms.topic_id = row.topic_id}

\* INSERT INTO monitored_sources (user_id, chat_id, chat_title, chat_type,
\*   is_active) VALUES ($1, $2, $3, $4, true)
\*   ON CONFLICT (user_id, chat_id, topic_id) DO UPDATE SET is_active = true
UpsertSource(table, row) ==
    IF ConflictingSources(table, row) # {}
    THEN {IF ms \in ConflictingSources(table, row) THEN [ms EXCEPT !.is_active = TRUE]
          ELSE ms : ms \in table}
    ELSE table \cup {[row EXCEPT !.id = Cardinality(table) + 1]}

\* bot.on(message('forward_origin')): an authorized user forwards a post of
\* channel chatId to the bot to subscribe; topic_id is not given and is NULL
forward_origin(userId, chatId) ==
    /\ userId \in UserIds
    /\ Cardinality(monitored_sources) < MaxSources
    /\ monitored_sources' =
            IF isAuthorized(userId)
            THEN UpsertSource(monitored_sources,
                    [id |-> 0, user_id |-> userId, chat_id |-> chatId,
                     topic_id |-> NULL, is_active |-> TRUE])
            ELSE monitored_sources
    /\ UNCHANGED <<now, users, user_settings, pending_messages, blog_posts,
                   blog_posts_id_seq, userStates, notion_pages, github_commits,
                   proc, approve_invoked>>

\* bot.action(/reject_(\d+)/): DELETE FROM blog_posts WHERE id = $1 AND user_id = $2
reject_action(userId, postId) ==
    /\ userId \in UserIds
    /\ blog_posts' = {d \in blog_posts : ~(d.id = postId /\ d.user_id = userId)}
    /\ UNCHANGED <<now, users, user_settings, monitored_sources, pending_messages,
                   blog_posts_id_seq, userStates, notion_pages, github_commits,
                   proc, approve_invoked>>

\* bot.action(/edit_(\d+)/): the next private text is the new content
edit_action(userId, postId) ==
    /\ userId \in UserIds
    /\ userStates' = [userStates EXCEPT ![userId] = [type |-> "edit_post", postId |-> postId]]
    /\ UNCHANGED <<now, users, user_settings, monitored_sources, pending_messages,
                   blog_posts, blog_posts_id_seq, notion_pages, github_commits,
                   proc, approve_invoked>>

\* What a user types into the private chat: a word with blanks around it, and
\* the numerals 0, 2, 16 and 1.5
PrivateTexts == {<<" ", "E", " ">>, <<"0">>, <<"2">>, <<"16">>, <<"1.5">>}

\* Number(text) of a trimmed text: the number a numeral denotes, 0 for the
\* empty string, NaN for anything else
JsNumber(text) ==
    IF text = <<>> THEN [isNaN |-> FALSE, isInteger |-> TRUE, value |-> 0]
    ELSE IF text = <<"0">> THEN [isNaN |-> FALSE, isInteger |-> TRUE, value |-> 0]
    ELSE IF text = <<"2">> THEN [isNaN |-> FALSE, isInteger |-> TRUE, value |-> 2]
    ELSE IF text = <<"16">> THEN [isNaN |-> FALSE, isInteger |-> TRUE, value |-> 16]
    ELSE IF text = <<"1.5">> THEN [isNaN |-> FALSE, isInteger |-> FALSE, value |-> 1]
    ELSE [isNaN |-> TRUE, isInteger |-> FALSE, value |-> 0]

\* !Number.isInteger(minutes) || minutes <= 0
RejectsMinutes(minutes) == ~minutes.isInteger \/ minutes.value <= 0

\* UPDATE user_settings SET combine_threshold_minutes = $1 WHERE user_id = $2
SetCombineThreshold(table, userId, minutes) ==
    IF userId \in DOMAIN table
    THEN [table EXCEPT ![userId].combine_threshold_minutes = minutes]
    ELSE table

\* What a user types when asked for a repository: owner/repo with blanks
\* around it, a bare name, a path of three parts, a name that starts with the
\* slash
RepoTexts == {<<" ", "o", "/", "r", " ">>, <<"o">>, <<"o", "/", "r", "/", "x">>,
              <<"/", "r">>}

\* /^[^/]+\/[^/]+$/.test(text): one slash, with something before and after it
RepoPattern(text) ==
    \E i \in 2..(Len(text) - 1) :
        /\ text[i] = "/"
        /\ \A j \in DOMAIN text : j # i => text[j] # "/"

\* the string a token string stands for, as it is stored in a VARCHAR column
RECURSIVE StringOf(_)
StringOf(text) == IF text = <<>> THEN "" ELSE Head(text) \o StringOf(Tail(text))

\* UPDATE user_settings SET notion_database_id = $1 WHERE user_id = $2
SetNotionDatabase(table, userId, value) ==
    IF userId \in DOMAIN table
    THEN [table EXCEPT ![userId].notion_database_id = value]
    ELSE table

\* UPDATE user_settings SET github_repo = $1 WHERE user_id = $2
SetGithubRepo(table, userId, value) ==
    IF userId \in DOMAIN table
    THEN [table EXCEPT ![userId].github_repo = value]
    ELSE table

\* a faulty variant without the owner in the WHERE clause (C17 must tell it
\* from the code)
SetContent_AnyOwner(table, postId, userId, content) ==
    {IF d.id = postId THEN [d EXCEPT !.content = content] ELSE d : d \in table}

\* UPDATE blog_posts SET content = $1 WHERE id = $2 AND user_id = $3
SetContent(table, postId, userId, content) ==
    {IF d.id = postId /\ d.user_id = userId THEN [d EXCEPT !.content = content]
     ELSE d : d \in table}

\* a faulty variant that deletes the state after a refused answer too (C35
\* must tell it from the code)
text_message_Consumed(userId, rawText) ==
    /\ userId \in UserIds
    /\ LET state   == userStates[userId]
           text    == Trim(rawText)
           minutes == JsNumber(text)
           invalid == \/ state.type = "set_combine_time" /\ RejectsMinutes(minutes)
                      \/ state.type = "set_github_repo" /\ ~RepoPattern(text)
       IN  /\ user_settings' =
                IF state.type = "set_combine_time" /\ ~invalid
                THEN SetCombineThreshold(user_settings, userId, minutes.value)
                ELSE IF state.type = "set_notion_db"
                THEN SetNotionDatabase(user_settings, userId, StringOf(text))
                ELSE IF state.type = "set_github_repo" /\ ~invalid
                THEN SetGithubRepo(user_settings, userId, StringOf(text))
                ELSE user_settings
           /\ blog_posts' =
                IF state.type = "edit_post"
                THEN SetContent(blog_posts, state.postId, userId, text)
                ELSE blog_posts
           /\ userStates' =
                IF state.type = "none" THEN userStates
                ELSE [userStates EXCEPT ![userId] = NoUserState]
    /\ UNCHANGED <<now, users, monitored_sources, pending_messages,
                   blog_posts_id_seq, notion_pages, github_commits, proc,
                   approve_invoked>>

\* bot.on(message('text')) in a private chat: the answer to the pending
\* question of userStates; an answer that is refused returns before the
\* state is deleted; without a pending question the update goes to next()
text_message(userId, rawText) ==
    /\ userId \in UserIds
    /\ LET state   == userStates[userId]
           text    == Trim(rawText)
           minutes == JsNumber(text)
           invalid == \/ state.type = "set_combine_time" /\ RejectsMinutes(minutes)
                      \/ state.type = "set_github_repo" /\ ~RepoPattern(text)
       IN  /\ user_settings' =
                IF state.type = "set_combine_time" /\ ~invalid
                THEN SetCombineThreshold(user_settings, userId, minutes.value)
                ELSE IF state.type = "set_notion_db"
                THEN SetNotionDatabase(user_settings, userId, StringOf(text))
                ELSE IF state.type = "set_github_repo" /\ ~invalid
                THEN SetGithubRepo(user_settings, userId, StringOf(text))
                ELSE user_settings
           /\ blog_posts' =
                IF state.type = "edit_post"
                THEN SetContent(blog_posts, state.postId, userId, text)
                ELSE blog_posts
           /\ userStates' =
                IF state.type = "none" \/ invalid THEN userStates
                ELSE [userStates EXCEPT ![userId] = NoUserState]
    /\ UNCHANGED <<now, users, monitored_sources, pending_messages,
                   blog_posts_id_seq, notion_pages, github_commits, proc,
                   approve_invoked>>

\* the process is killed and started again: the invocations in flight and the
\* in-memory Map are lost, the store is kept
Crash ==
    /\ proc' = [p \in Procs |-> IdleProc]
    /\ userStates' = [u \in UserIds |-> NoUserState]
    /\ UNCHANGED <<now, users, user_settings, monitored_sources, pending_messages,
                   blog_posts, blog_posts_id_seq, notion_pages, github_commits,
                   approve_invoked>>

\* ------------------------------------------------------------------ clock
AdvanceClock ==
    /\ now < MaxNow
    /\ now' = now + 1
    /\ UNCHANGED <<users, user_settings, monitored_sources, pending_messages,
                   blog_posts, blog_posts_id_seq, userStates, notion_pages,
                   github_commits, proc, approve_invoked>>

\* the transport delivers (or re-delivers) a message of the monitored chat:
\* one of shapes, with one of messageIds, dated up to MaxLag minutes back; in
\* the call for source s the attachments in resolvedFor[s] resolve
Deliver(shapes, messageIds, resolutions) ==
    \E chatId \in ChatIds, shape \in shapes, messageId \in messageIds,
       date \in Max(0, now - MaxLag)..now,
       order \in Orderings(monitored_sources),
       resolvedFor \in resolutions :
        handleIncomingMessage(chatId,
            [text |-> shape.text, caption |-> shape.caption,
             author_signature |-> shape.author_signature,
             from_username |-> shape.from_username, files |-> shape.files,
             message_thread_id |-> shape.message_thread_id,
             message_id |-> messageId, date |-> date],
            order, resolvedFor)

FirstMessage == {1}
AllResolve == {[s \in UserIds |-> FileIds]}
AnyResolve == [UserIds -> {{}, FileIds}]
TextShapes == {m \in MessageShapes : m.text # ""}
BatchShapes == {m \in MessageShapes : m.caption = "" /\ (m.text # "" \/ m.files # <<>>)}

\* the answers that carry a title: the default title, which embeds the time
\* of the call, is then not used
Titled(responses) == {r \in responses : r.kind = "json" => r.suggestedTitle.t = "string"
                                            /\ Trim(r.suggestedTitle.v) # <<>>}

\* ------------------------------------------------------------------- Init
\* Both users have sent /start and are authorized; the users in subscribers
\* have each subscribed to the channel (the source of user u has id u); user
\* 2 keeps the default settings, the owner has set a one-minute window and,
\* where ownerSettings says so, auto publish and the sinks.
OwnerSettings ==
    [user_id : {OWNER_USER_ID}, auto_publish : BOOLEAN,
     combine_threshold_minutes : {1},
     notion_database_id : {NULL, "db"}, github_repo : {NULL, "o/r"}]

ManualNoSinks ==
    {s \in OwnerSettings : ~s.auto_publish /\ s.notion_database_id = NULL
                           /\ s.github_repo = NULL}

InitWith(ownerSettings, subscribers) ==
    /\ now = 0
    /\ users = [u \in UserIds |-> [is_authorized |-> TRUE]]
    /\ \E own \in ownerSettings :
         user_settings = [u \in UserIds |->
                            IF u = OWNER_USER_ID THEN own ELSE DefaultSettings(u)]
    /\ monitored_sources =
         { [id |-> u, user_id |-> u, chat_id |-> 10, topic_id |-> NULL,
            is_active |-> TRUE] : u \in subscribers }
    /\ pending_messages = {}
    /\ blog_posts = {}
    /\ blog_posts_id_seq = 0
    /\ userStates = [u \in UserIds |-> NoUserState]
    /\ notion_pages = <<>>
    /\ github_commits = <<>>
    /\ proc = [p \in Procs |-> IdleProc]
    /\ approve_invoked = {}

\* ------------------------------------------------------------ the batcher
\* One invocation of processMessages at a time over the owner's channel; the
\* owner reviews drafts by hand.
Init == InitWith(ManualNoSinks, {OWNER_USER_ID})

Next ==
    \/ AdvanceClock
    \/ Deliver(BatchShapes, MessageIds, AllResolve)
    \/ \E order \in Orderings(DOMAIN user_settings) : processMessages_start("tick1", order)
    \/ /\ proc["tick1"].pc = "select"
       /\ \E rows \in OrderByTimestamp(UnprocessedOf(Head(proc["tick1"].users))) :
                    processMessages_select("tick1", rows)
    \/ \E response \in Titled(Responses) : processMessages_analyze("tick1", response)
    \/ processMessages_mark_skipped("tick1")
    \/ processMessages_insert("tick1")
    \/ processMessages_insert_fails("tick1")
    \/ \E notified \in BOOLEAN : processMessages_mark_batched("tick1", notified)

Spec == Init /\ [][Next]_vars

\* ---------------------------------------------------------- the ingestion
\* Both users subscribed to the channel; one message id, delivered again and
\* again in every shape and with every date, with attachments that resolve or
\* not in the call for each source; the batcher runs against a
\* classifier that finds nothing informational or fails, so rows get marked
\* and no Draft is made.
Dismissals ==
    {r \in Titled(Responses) :
        /\ r.combinedContent.t = "absent"
        /\ r.shouldCombine = "true"
        /\ r.kind \in {"error", "json"}
        /\ r.isInformational \in {"false", "absent"}}

InitIngest == InitWith(ManualNoSinks, UserIds)

NextIngest ==
    \/ AdvanceClock
    \/ Deliver(MessageShapes, FirstMessage, AnyResolve)
    \/ \E order \in Orderings(DOMAIN user_settings) : processMessages_start("tick1", order)
    \/ /\ proc["tick1"].pc = "select"
       /\ \E rows \in OrderByTimestamp(UnprocessedOf(Head(proc["tick1"].users))) :
                    processMessages_select("tick1", rows)
    \/ \E response \in Dismissals : processMessages_analyze("tick1", response)
    \/ processMessages_mark_skipped("tick1")

SpecIngest == InitIngest /\ [][NextIngest]_vars

\* ------------------------------------------------------------- two owners
\* Both users subscribed to the channel, one message, one invocation of
\* processMessages at a time.
InitOwners == InitWith(ManualNoSinks, UserIds)

NextOwners ==
    \/ AdvanceClock
    \/ Deliver(BatchShapes, FirstMessage, AllResolve)
    \/ \E order \in Orderings(DOMAIN user_settings) : processMessages_start("tick1", order)
    \/ /\ proc["tick1"].pc = "select"
       /\ \E rows \in OrderByTimestamp(UnprocessedOf(Head(proc["tick1"].users))) :
                    processMessages_select("tick1", rows)
    \/ \E response \in Titled(Responses) : processMessages_analyze("tick1", response)
    \/ processMessages_mark_skipped("tick1")
    \/ processMessages_insert("tick1")
    \/ processMessages_insert_fails("tick1")
    \/ \E notified \in BOOLEAN : processMessages_mark_batched("tick1", notified)

SpecOwners == InitOwners /\ [][NextOwners]_vars

\* -------------------------------------------------------- overlapping ticks
\* The timer fires while an earlier invocation of processMessages is still
\* awaiting the classifier or the store: two invocations in flight.
InitOverlap == InitWith(ManualNoSinks, {OWNER_USER_ID})

NextOverlap ==
    \/ AdvanceClock
    \/ Deliver(TextShapes, FirstMessage, AllResolve)
    \/ \E p \in Ticks, order \in Orderings(DOMAIN user_settings) :
            processMessages_start(p, order)
    \/ \E p \in Ticks :
            /\ proc[p].pc = "select"
            /\ \E rows \in OrderByTimestamp(UnprocessedOf(Head(proc[p].users))) :
                    processMessages_select(p, rows)
    \/ \E p \in Ticks, response \in Titled(Responses) : processMessages_analyze(p, response)
    \/ \E p \in Ticks : processMessages_mark_skipped(p)
    \/ \E p \in Ticks : processMessages_insert(p)
    \/ \E p \in Ticks : processMessages_insert_fails(p)
    \/ \E p \in Ticks, notified \in BOOLEAN : processMessages_mark_batched(p, notified)

SpecOverlap == InitOverlap /\ [][NextOverlap]_vars

\* -------------------------------------------------------------- publishing
\* The owner has both sinks configured, with auto publish on or off; one
\* invocation of processMessages and one publish_<id> callback at a time; the
\* classifier finds every batch informational and writes title and body.
BothSinks ==
    {s \in OwnerSettings : s.notion_database_id # NULL /\ s.github_repo # NULL}

Approvals ==
    {r \in Titled(Responses) :
        /\ r.kind = "json"
        /\ r.isInformational = "true"
        /\ r.shouldCombine = "true"
        /\ r.combinedContent.t = "string"
        /\ Trim(r.combinedContent.v) # <<>>}

InitPublish == InitWith(BothSinks, {OWNER_USER_ID})

NextPublish ==
    \/ Deliver(TextShapes, MessageIds, AllResolve)
    \/ \E order \in Orderings(DOMAIN user_settings) : processMessages_start("tick1", order)
    \/ /\ proc["tick1"].pc = "select"
       /\ \E rows \in OrderByTimestamp(UnprocessedOf(Head(proc["tick1"].users))) :
                    processMessages_select("tick1", rows)
    \/ \E response \in Approvals : processMessages_analyze("tick1", response)
    \/ processMessages_insert("tick1")
    \/ processMessages_insert_fails("tick1")
    \/ \E notified \in BOOLEAN : processMessages_mark_batched("tick1", notified)
    \/ \E p \in {"tick1", "cb1"} : publishPost_begin(p)
    \/ \E p \in {"tick1", "cb1"} : publishPost_load(p)
    \/ \E p \in {"tick1", "cb1"}, ok \in BOOLEAN : publishPost_notion(p, ok)
    \/ \E p \in {"tick1", "cb1"}, ok \in BOOLEAN : publishPost_github(p, ok)
    \/ \E p \in {"tick1", "cb1"}, notified \in BOOLEAN : publishPost_record(p, notified)
    \/ \E p \in {"tick1", "cb1"} : publishPost_failed(p)
    \/ \E postId \in 1..MaxPosts, userId \in UserIds : publish_action("cb1", postId, userId)

SpecPublish == InitPublish /\ [][NextPublish]_vars

\* ----------------------------------------------------------- manual review
\* As above, with auto publish off: a Draft reaches the sinks only through the
\* publish_<id> callback.
ManualBothSinks == {s \in BothSinks : ~s.auto_publish}

InitManual == InitWith(ManualBothSinks, {OWNER_USER_ID})

SpecManual == InitManual /\ [][NextPublish]_vars

\* ------------------------------------------------------------ auto publish
\* Auto publish on, both sinks: the tick publishes the Draft it has made, the
\* owner may press publish_<id> at any time; sinks and notifications may fail.
AutoBothSinks == {s \in BothSinks : s.auto_publish}

InitAuto == InitWith(AutoBothSinks, {OWNER_USER_ID})

NextAuto ==
    \/ Deliver(TextShapes, MessageIds, AllResolve)
    \/ \E order \in Orderings(DOMAIN user_settings) : processMessages_start("tick1", order)
    \/ /\ proc["tick1"].pc = "select"
       /\ \E rows \in OrderByTimestamp(UnprocessedOf(Head(proc["tick1"].users))) :
                    processMessages_select("tick1", rows)
    \/ \E response \in Approvals : processMessages_analyze("tick1", response)
    \/ processMessages_insert("tick1")
    \/ \E notified \in BOOLEAN : processMessages_mark_batched("tick1", notified)
    \/ \E p \in {"tick1", "cb1"} : publishPost_begin(p)
    \/ \E p \in {"tick1", "cb1"} : publishPost_load(p)
    \/ \E p \in {"tick1", "cb1"}, ok \in BOOLEAN : publishPost_notion(p, ok)
    \/ \E p \in {"tick1", "cb1"}, ok \in BOOLEAN : publishPost_github(p, ok)
    \/ \E p \in {"tick1", "cb1"}, notified \in BOOLEAN : publishPost_record(p, notified)
    \/ \E p \in {"tick1", "cb1"} : publishPost_failed(p)
    \/ \E postId \in 1..MaxPosts : publish_action("cb1", postId, OWNER_USER_ID)

SpecAuto == InitAuto /\ [][NextAuto]_vars

\* ------------------------------------------------------------------ crash
\* The batcher of the first specification, where the process may be killed
\* and started again at any await.
InitCrash == InitWith(ManualNoSinks, {OWNER_USER_ID})

NextCrash ==
    \/ Next
    \/ Crash

SpecCrash == InitCrash /\ [][NextCrash]_vars

\* ------------------------------------------------------------------ timer
\* One invocation of processMessages at a time, with every outcome: the
\* classifier, the store, a sink or the notification may fail.  setInterval
\* fires again and again and every await settles, so the steps of the
\* batcher are weakly fair.
TickStep(p) ==
    \/ \E order \in Orderings(DOMAIN user_settings) : processMessages_start(p, order)
    \/ /\ proc[p].pc = "select"
       /\ \E rows \in OrderByTimestamp(UnprocessedOf(Head(proc[p].users))) :
                    processMessages_select(p, rows)
    \/ \E response \in Titled(Responses) : processMessages_analyze(p, response)
    \/ processMessages_mark_skipped(p)
    \/ processMessages_insert(p)
    \/ processMessages_insert_fails(p)
    \/ \E notified \in BOOLEAN : processMessages_mark_batched(p, notified)
    \/ publishPost_begin(p)
    \/ publishPost_load(p)
    \/ \E ok \in BOOLEAN : publishPost_notion(p, ok)
    \/ \E ok \in BOOLEAN : publishPost_github(p, ok)
    \/ \E notified \in BOOLEAN : publishPost_record(p, notified)
    \/ publishPost_failed(p)

InitTimer == InitWith(BothSinks, {OWNER_USER_ID})

NextTimer ==
    \/ AdvanceClock
    \/ Deliver(TextShapes, MessageIds, AllResolve)
    \/ TickStep("tick1")

SpecTimer == InitTimer /\ [][NextTimer]_vars /\ WF_vars(TickStep("tick1"))

\* ----------------------------------------------------------------- review
\* Both users subscribed to the channel and reviewing by hand: each gets a
\* Draft of the one message, presses edit_<id> with any id and answers with
\* any text.
InitReview == InitWith(ManualNoSinks, UserIds)

NextReview ==
    \/ Deliver(TextShapes, FirstMessage, AllResolve)
    \/ \E order \in Orderings(DOMAIN user_settings) : processMessages_start("tick1", order)
    \/ /\ proc["tick1"].pc = "select"
       /\ \E rows \in OrderByTimestamp(UnprocessedOf(Head(proc["tick1"].users))) :
                    processMessages_select("tick1", rows)
    \/ \E response \in Approvals : processMessages_analyze("tick1", response)
    \/ processMessages_insert("tick1")
    \/ \E notified \in BOOLEAN : processMessages_mark_batched("tick1", notified)
    \/ \E userId \in UserIds, postId \in 1..MaxPosts : edit_action(userId, postId)
    \/ \E userId \in UserIds, rawText \in PrivateTexts : text_message(userId, rawText)

SpecReview == InitReview /\ [][NextReview]_vars

\* ---------------------------------------------------------------- sources
\* The batcher of the first specification, where the owner may send
\* /unsubscribe <source_id> at any time.
InitSources == InitWith(ManualNoSinks, {OWNER_USER_ID})

NextSources ==
    \/ Next
    \/ \E userId \in UserIds, sourceId \in UserIds : unsubscribe_command(userId, sourceId)

SpecSources == InitSources /\ [][NextSources]_vars

\* ----------------------------------------------------------------- access
\* The owner has sent /start, subscribed to the channel and reviews by hand,
\* without sinks; user 2 is unknown to the bot.  Both users send commands
\* and press the buttons under a Draft; the owner may authorize and revoke.
InitAccess ==
    /\ now = 0
    /\ users = (OWNER_USER_ID :> [is_authorized |-> TRUE])
    /\ \E own \in ManualNoSinks : user_settings = (OWNER_USER_ID :> own)
    /\ monitored_sources =
         { [id |-> OWNER_USER_ID, user_id |-> OWNER_USER_ID, chat_id |-> 10,
            topic_id |-> NULL, is_active |-> TRUE] }
    /\ pending_messages = {}
    /\ blog_posts = {}
    /\ blog_posts_id_seq = 0
    /\ userStates = [u \in UserIds |-> NoUserState]
    /\ notion_pages = <<>>
    /\ github_commits = <<>>
    /\ proc = [p \in Procs |-> IdleProc]
    /\ approve_invoked = {}

\* the texts that are no numeral
WordTexts == {t \in PrivateTexts : JsNumber(Trim(t)).isNaN}

NextAccess ==
    \/ Deliver(TextShapes, FirstMessage, AllResolve)
    \/ \E order \in Orderings(DOMAIN user_settings) : processMessages_start("tick1", order)
    \/ /\ proc["tick1"].pc = "select"
       /\ \E rows \in OrderByTimestamp(UnprocessedOf(Head(proc["tick1"].users))) :
                    processMessages_select("tick1", rows)
    \/ \E response \in Approvals : processMessages_analyze("tick1", response)
    \/ processMessages_insert("tick1")
    \/ \E notified \in BOOLEAN : processMessages_mark_batched("tick1", notified)
    \/ publishPost_begin("cb1")
    \/ publishPost_load("cb1")
    \/ \E notified \in BOOLEAN : publishPost_record("cb1", notified)
    \/ publishPost_failed("cb1")
    \/ \E postId \in 1..MaxPosts, userId \in UserIds : publish_action("cb1", postId, userId)
    \/ \E userId \in UserIds : bot_start(userId)
    \/ \E fromId \in UserIds, userId \in UserIds, granted \in BOOLEAN :
            authorize_command(fromId, userId, granted)
    \/ \E userId \in UserIds, sourceId \in UserIds : unsubscribe_command(userId, sourceId)
    \/ \E userId \in UserIds, postId \in 1..MaxPosts : reject_action(userId, postId)
    \/ \E userId \in UserIds, postId \in 1..MaxPosts : edit_action(userId, postId)
    \/ \E userId \in UserIds, rawText \in WordTexts : text_message(userId, rawText)

SpecAccess == InitAccess /\ [][NextAccess]_vars

\* --------------------------------------------------------------- settings
\* The settings menu: the users of the access specification send /start,
\* toggle auto publish, ask to set the combine time and answer with any text;
\* the owner may authorize and revoke.
InitSettings == InitAccess

NextSettings ==
    \/ \E userId \in UserIds : bot_start(userId)
    \/ \E fromId \in UserIds, userId \in UserIds, granted \in BOOLEAN :
            authorize_command(fromId, userId, granted)
    \/ \E userId \in UserIds : toggle_auto_publish(userId)
    \/ \E userId \in UserIds : set_combine_time(userId)
    \/ \E userId \in UserIds, rawText \in PrivateTexts : text_message(userId, rawText)

SpecSettings == InitSettings /\ [][NextSettings]_vars

\* -------------------------------------------------------------- completion
\* The publishing specification over one message, where every await settles:
\* the steps of the tick and of the publish_<id> handler are weakly fair.  The
\* users press publish_<id> when they like.
HandlerStep(p) ==
    \/ publishPost_begin(p)
    \/ publishPost_load(p)
    \/ \E ok \in BOOLEAN : publishPost_notion(p, ok)
    \/ \E ok \in BOOLEAN : publishPost_github(p, ok)
    \/ \E notified \in BOOLEAN : publishPost_record(p, notified)
    \/ publishPost_failed(p)

InitCompletion == InitWith(BothSinks, {OWNER_USER_ID})

NextCompletion ==
    \/ Deliver(TextShapes, FirstMessage, AllResolve)
    \/ TickStep("tick1")
    \/ HandlerStep("cb1")
    \/ \E postId \in 1..MaxPosts, userId \in UserIds : publish_action("cb1", postId, userId)

SpecCompletion ==
    /\ InitCompletion
    /\ [][NextCompletion]_vars
    /\ WF_vars(TickStep("tick1"))
    /\ WF_vars(HandlerStep("cb1"))

\* ---------------------------------------------------------------- catch up
\* The batcher of the first specification with nothing failing: the
\* classifier always answers with a verdict, the store and the notification
\* work, and the timer fires for ever (the steps of the tick are weakly
\* fair).  The clock runs on its own, also while no tick is in flight.
Verdicts == {r \in Titled(Responses) : ~analyzeMessages(r).thrown}

BatcherStep(p) ==
    \/ \E order \in Orderings(DOMAIN user_settings) : processMessages_start(p, order)
    \/ /\ proc[p].pc = "select"
       /\ \E rows \in OrderByTimestamp(UnprocessedOf(Head(proc[p].users))) :
                    processMessages_select(p, rows)
    \/ \E response \in Verdicts : processMessages_analyze(p, response)
    \/ processMessages_mark_skipped(p)
    \/ processMessages_insert(p)
    \/ processMessages_mark_batched(p, TRUE)

InitCatchUp == InitWith(ManualNoSinks, {OWNER_USER_ID})

NextCatchUp ==
    \/ AdvanceClock
    \/ Deliver(TextShapes, MessageIds, AllResolve)
    \/ BatcherStep("tick1")

SpecCatchUp == InitCatchUp /\ [][NextCatchUp]_vars /\ WF_vars(BatcherStep("tick1"))

\* ------------------------------------------------------------------ media
\* The owner's channel carries photos and documents, each message in either
\* shape, with attachments whose link resolves or not; the classifier finds
\* every batch informational; the owner reviews by hand.
MediaShapes == {m \in MessageShapes : m.files # <<>>}

InitMedia == InitWith(ManualNoSinks, {OWNER_USER_ID})

NextMedia ==
    \/ AdvanceClock
    \/ Deliver(MediaShapes, MessageIds, AnyResolve)
    \/ \E order \in Orderings(DOMAIN user_settings) : processMessages_start("tick1", order)
    \/ /\ proc["tick1"].pc = "select"
       /\ \E rows \in OrderByTimestamp(UnprocessedOf(Head(proc["tick1"].users))) :
                    processMessages_select("tick1", rows)
    \/ \E response \in Approvals : processMessages_analyze("tick1", response)
    \/ processMessages_insert("tick1")
    \/ \E notified \in BOOLEAN : processMessages_mark_batched("tick1", notified)

SpecMedia == InitMedia /\ [][NextMedia]_vars

\* ----------------------------------------------------------------- topics
\* Two chats and three sources: the owner follows chat 10 whatever the topic,
\* user 2 follows topic t7 and topic t9 of chat 10; nobody follows chat 20.
\* A message comes from either chat, in any shape, with attachments that
\* resolve or not in the call for a source; the owners unsubscribe when they
\* like.
SourceChats == {10, 20}

TopicSources ==
    { [id |-> 1, user_id |-> 1, chat_id |-> 10, topic_id |-> NULL, is_active |-> TRUE],
      [id |-> 2, user_id |-> 2, chat_id |-> 10, topic_id |-> "t7", is_active |-> TRUE],
      [id |-> 3, user_id |-> 2, chat_id |-> 10, topic_id |-> "t9", is_active |-> TRUE] }

SourceIds == {ms.id : ms \in TopicSources}

\* getFileLink fails or not in the call for the chat-wide source; in the
\* calls for the other sources it succeeds
PerSourceResolve ==
    {f \in [SourceIds -> {{}, FileIds}] : \A id \in SourceIds \ {1} : f[id] = FileIds}

\* the update of chat chatId with message messageId in the given shape
InboundMessage(shape, messageId, date) ==
    [text |-> shape.text, caption |-> shape.caption,
     author_signature |-> shape.author_signature,
     from_username |-> shape.from_username, files |-> shape.files,
     message_thread_id |-> shape.message_thread_id,
     message_id |-> messageId, date |-> date]

DeliverFromChats(chats, shapes, messageIds, resolutions) ==
    \E chatId \in chats, shape \in shapes, messageId \in messageIds,
       resolvedFor \in resolutions :
        \E order \in Orderings(MatchingSources(chatId, shape.message_thread_id)) :
            handleIncomingMessage(chatId, InboundMessage(shape, messageId, now),
                                  order, resolvedFor)

InitTopics ==
    /\ now = 0
    /\ users = [u \in UserIds |-> [is_authorized |-> TRUE]]
    /\ user_settings = [u \in UserIds |-> DefaultSettings(u)]
    /\ monitored_sources = TopicSources
    /\ pending_messages = {}
    /\ blog_posts = {}
    /\ blog_posts_id_seq = 0
    /\ userStates = [u \in UserIds |-> NoUserState]
    /\ notion_pages = <<>>
    /\ github_commits = <<>>
    /\ proc = [p \in Procs |-> IdleProc]
    /\ approve_invoked = {}

NextTopics ==
    \/ DeliverFromChats(SourceChats, MessageShapes, FirstMessage, PerSourceResolve)
    \/ \E userId \in UserIds, sourceId \in SourceIds : unsubscribe_command(userId, sourceId)

SpecTopics == InitTopics /\ [][NextTopics]_vars

\* ------------------------------------------------------------ attachments
\* The owner's channel carries media: photos, documents and animations,
\* which Telegram sends with both a document and an animation file, with a
\* caption or without; each link resolves or not on its own.  No batcher runs
\* and the clock stands.
AnimationShapes ==
    { [text |-> "", caption |-> "", author_signature |-> "",
       from_username |-> NULL, files |-> <<"f2", "f1">>, message_thread_id |-> NULL],
      [text |-> "", caption |-> "g", author_signature |-> "",
       from_username |-> NULL, files |-> <<"f2", "f1">>, message_thread_id |-> NULL] }

AttachmentShapes == {m \in MessageShapes : m.files # <<>>} \cup AnimationShapes

PartialResolve == {[s \in UserIds |-> resolved] : resolved \in SUBSET FileIds}

InitAttachments == InitWith(ManualNoSinks, {OWNER_USER_ID})

NextAttachments ==
    Deliver(AttachmentShapes, MessageIds, PartialResolve)

SpecAttachments == InitAttachments /\ [][NextAttachments]_vars

\* ----------------------------------------------------------------- reject
\* The publishing specification over one message, where the users may also
\* press reject_<id> at any time, while a publish is in flight too.
InitReject == InitWith(BothSinks, {OWNER_USER_ID})

NextReject ==
    \/ Deliver(TextShapes, FirstMessage, AllResolve)
    \/ TickStep("tick1")
    \/ HandlerStep("cb1")
    \/ \E postId \in 1..MaxPosts, userId \in UserIds : publish_action("cb1", postId, userId)
    \/ \E postId \in 1..MaxPosts, userId \in UserIds : reject_action(userId, postId)

SpecReject == InitReject /\ [][NextReject]_vars

\* -------------------------------------------------------------- subscribe
\* The owner follows chat 10; both users forward channel posts of either chat
\* to subscribe and send /unsubscribe <source_id> with any id; messages of
\* both chats come in.
AllSourcesResolve == {[id \in 1..MaxSources |-> FileIds]}

InitSubscribe == InitWith(ManualNoSinks, {OWNER_USER_ID})

NextSubscribe ==
    \/ \E userId \in UserIds, chatId \in SourceChats : forward_origin(userId, chatId)
    \/ \E userId \in UserIds, sourceId \in 1..MaxSources :
            unsubscribe_command(userId, sourceId)
    \/ DeliverFromChats(SourceChats, TextShapes, FirstMessage, AllSourcesResolve)

SpecSubscribe == InitSubscribe /\ [][NextSubscribe]_vars

\* ---------------------------------------------------------------- session
\* The settings menu in full: both users are authorized, press the buttons
\* that ask for the combine time, the Notion database and the GitHub
\* repository, and answer with any text.
SessionTexts == {<<"0">>, <<"2">>, <<"1.5">>} \cup RepoTexts

InitSession == InitWith(ManualNoSinks, {OWNER_USER_ID})

NextSession ==
    \/ \E userId \in UserIds : set_combine_time(userId)
    \/ \E userId \in UserIds : set_notion_db(userId)
    \/ \E userId \in UserIds : set_github_repo(userId)
    \/ \E userId \in UserIds, rawText \in SessionTexts : text_message(userId, rawText)

SpecSession == InitSession /\ [][NextSession]_vars

\* ----------------------------------------------------------------- claims
OwnerOf(m) == (CHOOSE ms \in monitored_sources : ms.id = m.source_id).user_id

BatchIds(pr) == {pr.recentMessages[i].id : i \in DOMAIN pr.recentMessages}

\* a step in which invocation p of processMessages moves from pc a to pc b
Moves(p, a, b) == proc[p].pc = a /\ proc'[p].pc = b /\ proc'[p] # proc[p]

\* C7: the batch handed to the classifier for an owner is exactly the set of
\* that owner's unprocessed rows whose timestamp is >= now - windowMinutes
\* (a row exactly at the cutoff is in it), and the classifier is called
\* exactly when that set is not empty.
C7_WindowBatch ==
    [][\A p \in Ticks :
        (proc[p].pc = "select" /\ proc'[p] # proc[p]) =>
            LET owner  == Head(proc[p].users)
                window == user_settings[owner].combine_threshold_minutes
                kept   == {m \in pending_messages :
                              /\ ~m.is_processed
                              /\ OwnerOf(m) = owner
                              /\ m.timestamp >= now - window}
            IN  /\ (proc'[p].pc = "analyze") = (kept # {})
                /\ Range(proc'[p].recentMessages) = kept
                /\ Len(proc'[p].recentMessages) = Cardinality(kept)]_vars

\* C7 witness: a batch is at the classifier that holds a row exactly at the
\* cutoff, while an older unprocessed row of the same owner was left out
C7_Witness ==
    \E p \in Ticks :
        /\ proc[p].pc = "analyze"
        /\ \E m \in Range(proc[p].recentMessages) :
              m.timestamp = now - proc[p].settings.combine_threshold_minutes
        /\ \E m \in pending_messages :
              /\ ~m.is_processed
              /\ OwnerOf(m) = Head(proc[p].users)
              /\ m.timestamp < now - proc[p].settings.combine_threshold_minutes
              /\ m \notin Range(proc[p].recentMessages)

\* the verdicts of the classifier adapter for an answer
NotInformational(r) == ~analyzeMessages(r).thrown /\ ~analyzeMessages(r).isInformational
Informational(r) == ~analyzeMessages(r).thrown /\ analyzeMessages(r).isInformational

\* C5: on a not-informational verdict for an owner's batch the tick creates
\* no Draft for the batch, calls no sink, and marks the rows of the kept batch,
\* and only those rows, processed.
C5_NotInformational ==
    [][\A p \in Ticks :
        /\ (proc[p].pc = "analyze" /\ proc'[p] # proc[p]) =>
              \A r \in Responses :
                  (processMessages_analyze(p, r) /\ NotInformational(r)) =>
                      /\ proc'[p].pc = "mark_skipped"
                      /\ proc'[p].recentMessages = proc[p].recentMessages
        /\ (proc[p].pc = "mark_skipped" /\ proc'[p] # proc[p]) =>
              /\ blog_posts' = blog_posts
              /\ blog_posts_id_seq' = blog_posts_id_seq
              /\ notion_pages' = notion_pages
              /\ github_commits' = github_commits
              /\ proc'[p].pc \in {"select", "idle"}
              /\ pending_messages' =
                    {IF m.id \in BatchIds(proc[p]) THEN [m EXCEPT !.is_processed = TRUE]
                     ELSE m : m \in pending_messages}]_vars

\* C5 witness: no Draft was ever made, the tick has ended, a row is marked
\* processed and an older row of the same owner, outside the batch, is not
C5_Witness ==
    /\ blog_posts_id_seq = 0
    /\ \A p \in Ticks : proc[p].pc = "idle"
    /\ \E m, older \in pending_messages :
          /\ m.is_processed
          /\ ~older.is_processed
          /\ OwnerOf(m) = OwnerOf(older)
          /\ older.timestamp < m.timestamp

\* the fallback body, written from the last message backwards
ExpectedSegment(m) ==
    <<"**">> \o m.sender \o <<"** (", ToString(m.timestamp), "):\n">>
    \o (IF m.text = NULL THEN <<>> ELSE <<m.text>>)

RECURSIVE ExpectedFallback(_, _)
ExpectedFallback(messages, n) ==
    IF n = 0 THEN <<>>
    ELSE IF n = 1 THEN ExpectedSegment(messages[1])
    ELSE ExpectedFallback(messages, n - 1) \o <<"\n\n">> \o ExpectedSegment(messages[n])

Ascending(messages) ==
    \A i, j \in DOMAIN messages : i <= j => messages[i].timestamp <= messages[j].timestamp

\* C6: on an informational verdict the tick inserts exactly one Draft for the
\* batch; its body is the classifier's combinedContent when that is not
\* empty, and otherwise the fallback that concatenates sender, timestamp and
\* text of each kept message in ascending timestamp order.
C6_DraftBody ==
    [][\A p \in Ticks :
        /\ (proc[p].pc = "analyze" /\ proc'[p] # proc[p]) =>
              \A r \in Responses :
                  (processMessages_analyze(p, r) /\ Informational(r)) =>
                      /\ proc'[p].pc = "insert"
                      /\ proc'[p].recentMessages = proc[p].recentMessages
                      /\ Ascending(proc[p].recentMessages)
                      /\ proc'[p].draft.content =
                            IF analyzeMessages(r).combinedContent # <<>>
                            THEN analyzeMessages(r).combinedContent
                            ELSE ExpectedFallback(proc[p].recentMessages,
                                                  Len(proc[p].recentMessages))
        /\ Moves(p, "insert", "mark_batched") =>
              \E d \in blog_posts' :
                  /\ d \notin blog_posts
                  /\ blog_posts' = blog_posts \cup {d}
                  /\ d.content = proc[p].draft.content
                  /\ d.user_id = Head(proc[p].users)
                  /\ Range(d.source_messages) = BatchIds(proc[p])]_vars

\* C6 witness: a Draft made from two messages whose row ids run against their
\* timestamps, with the fallback body
C6_Witness ==
    \E d \in blog_posts :
        /\ d.source_messages = <<2, 1>>
        /\ d.content # <<>>
        /\ d.content[1] = "**"

\* a model answer that has no JSON object or lacks a required boolean field
Malformed(r) ==
    \/ r.kind # "json"
    \/ r.isInformational \notin {"true", "false"}
    \/ r.shouldCombine \notin {"true", "false"}

\* C10: classify fails whenever the model response has no JSON object or
\* lacks a required boolean field (isInformational, shouldCombine); the
\* batcher then marks no row processed and creates no Draft: the invocation
\* is abandoned, and such a response is never taken as a verdict.
C10_FormatError ==
    [][\A p \in Ticks :
        (proc[p].pc = "analyze" /\ proc'[p] # proc[p]) =>
            \A r \in Responses :
                (processMessages_analyze(p, r) /\ Malformed(r)) =>
                    /\ proc'[p].pc \notin {"mark_skipped", "insert"}
                    /\ proc'[p] = IdleProc]_vars

\* at most one row per (source_id, message_id)
UniqueKey(table) ==
    \A r1, r2 \in table :
        (r1.source_id = r2.source_id /\ r1.message_id = r2.message_id) => r1 = r2

\* C1: whatever is delivered, and however often, the queue holds at most one
\* row per (sourceId, messageId); a row once inserted keeps its text,
\* mediaRefs, sender and timestamp, and a step of the ingestion (any step that
\* is not a step of the batcher) leaves every existing row as it is, its
\* processed flag included.
C1_IdempotentInsert ==
    [][/\ UniqueKey(pending_messages')
       /\ \A r \in pending_messages :
             \E r2 \in pending_messages' : r2 = [r EXCEPT !.is_processed = r2.is_processed]
       /\ (proc' = proc) => pending_messages \subseteq pending_messages']_vars

\* C1 witness: the rows of the two sources for the same message differ in
\* text, so the message was delivered twice with different content and the
\* second delivery met the row of the first; that row is already processed
C1_Witness ==
    \E r1, r2 \in pending_messages :
        /\ r1.message_id = r2.message_id
        /\ r1.source_id # r2.source_id
        /\ r1.text # r2.text
        /\ r1.id < r2.id
        /\ r1.is_processed
        /\ ~r2.is_processed

PostsWithId(table, postId) == {d \in table : d.id = postId}

\* C2: publish skips every sink whose id is already recorded on the Draft: a
\* page or commit is only ever created for a Draft that has no id recorded
\* for that sink.
C2_SkipRecordedSink ==
    [][/\ Len(notion_pages') > Len(notion_pages) =>
             \A d \in PostsWithId(blog_posts, notion_pages'[Len(notion_pages')]) :
                 d.notion_page_id = NULL
       /\ Len(github_commits') > Len(github_commits) =>
             \A d \in PostsWithId(blog_posts, github_commits'[Len(github_commits')]) :
                 d.github_commit_sha = NULL]_vars

\* C3: when an invocation of publish ends, every id a sink returned to it is
\* recorded on the Draft, also when the other sink threw; and an id once
\* recorded on a Draft stays as it is.
C3_PartialSuccessKept ==
    [][/\ \A p \in Procs :
             (proc[p].pc \in PublishPcs /\ proc'[p].pc \notin PublishPcs) =>
                 \A d \in PostsWithId(blog_posts', proc[p].postId) :
                     /\ proc[p].notionPageId # NULL =>
                            d.notion_page_id = proc[p].notionPageId
                     /\ proc[p].githubSha # NULL =>
                            d.github_commit_sha = proc[p].githubSha
       /\ \A d \in blog_posts : \A d2 \in PostsWithId(blog_posts', d.id) :
             /\ d.notion_page_id # NULL => d2.notion_page_id = d.notion_page_id
             /\ d.github_commit_sha # NULL => d2.github_commit_sha = d.github_commit_sha]_vars

\* C4: every queued message is in the sourceMessageIds of at most one Draft.
C4_OneDraftPerMessage ==
    \A m \in pending_messages :
        Cardinality({d \in blog_posts : m.id \in Range(d.source_messages)}) <= 1

InPublish(postId) == \E p \in Procs : proc[p].pc \in PublishPcs /\ proc[p].postId = postId

\* C8: for an owner with autoPublish = false an informational batch makes
\* exactly one Draft, with status pending; and as long as approve was not
\* invoked for it, no publish is running for the Draft and neither sink holds
\* content of it.
C8_ManualUntilApproved ==
    [][/\ \A p \in Ticks :
             (Moves(p, "insert", "mark_batched") /\ ~proc[p].settings.auto_publish) =>
                 \E d \in blog_posts' :
                     /\ d \notin blog_posts
                     /\ blog_posts' = blog_posts \cup {d}
                     /\ d.status = "pending"
       /\ \A d \in blog_posts' :
             (~user_settings[d.user_id].auto_publish /\ d.id \notin approve_invoked') =>
                 /\ ~InPublish(d.id)'
                 /\ d.id \notin Range(notion_pages') \cup Range(github_commits')]_vars

\* C8 witness: the owner has both sinks and auto publish off; the tick has
\* ended and left a pending Draft of a batch of two messages, approve was
\* invoked for another id only
C8_Witness ==
    \E d \in blog_posts :
        /\ ~user_settings[d.user_id].auto_publish
        /\ user_settings[d.user_id].notion_database_id # NULL
        /\ user_settings[d.user_id].github_repo # NULL
        /\ Len(d.source_messages) = 2
        /\ d.status = "pending"
        /\ d.id \notin approve_invoked
        /\ approve_invoked # {}
        /\ \A p \in Procs : proc[p].pc = "idle"

Failure(r) == analyzeMessages(r).thrown

\* C9: a classifier failure while one owner is processed ends that owner's
\* iteration only: the tick goes on with the owners later in the enumeration
\* order, no Draft is made for the failing owner and no row is marked.
C9_OtherOwnersGoOn ==
    [][\A p \in Ticks :
        (proc[p].pc = "analyze" /\ proc'[p] # proc[p]) =>
            \A r \in Responses :
                (processMessages_analyze(p, r) /\ Failure(r)) =>
                    /\ proc'[p] = Continue(proc[p])
                    /\ blog_posts' = blog_posts
                    /\ pending_messages' = pending_messages]_vars

\* the ids of the Drafts a sink is called for in this step
SinkCalls ==
    (IF Len(notion_pages') > Len(notion_pages)
     THEN {notion_pages'[Len(notion_pages')]} ELSE {})
    \cup
    (IF Len(github_commits') > Len(github_commits)
     THEN {github_commits'[Len(github_commits')]} ELSE {})

\* C11: publish(draftId, ownerId) is a no-op when the Draft does not exist or
\* belongs to another owner: no step of such an invocation changes a field of
\* any Draft (its status included) or calls a sink.
C11_NoOpWithoutDraft ==
    [][\A p \in Procs :
        (/\ proc[p].pc \in PublishPcs
         /\ proc'[p] # proc[p]
         /\ ~\E d \in blog_posts : d.id = proc[p].postId /\ d.user_id = proc[p].userId) =>
            /\ blog_posts' = blog_posts
            /\ SinkCalls = {}]_vars

\* every sink configured for the invocation of publishPost has returned an id
AllSinksSucceeded(pr) ==
    /\ pr.post # NoDraft
    /\ Truthy(pr.settings.notion_database_id) => pr.notionPageId # NULL
    /\ Truthy(pr.settings.github_repo) => pr.githubSha # NULL

\* C13: when every configured sink call of a publish invocation succeeds, the
\* Draft ends the invocation with status published and publishedAt set; and
\* status published always implies publishedAt is set.
C13_PublishedWhenSinksSucceed ==
    [][/\ \A p \in Procs :
             (/\ proc[p].pc \in PublishPcs
              /\ proc'[p].pc \notin PublishPcs
              /\ AllSinksSucceeded(proc[p])) =>
                 \A d \in PostsWithId(blog_posts', proc[p].postId) :
                     d.status = "published" /\ d.published_at # NULL
       /\ \A d \in blog_posts' : d.status = "published" => d.published_at # NULL]_vars

\* C18: published is a terminal state of a Draft: no later step changes the
\* status of a published Draft or calls a sink for it.
C18_PublishedTerminal ==
    [][\A d \in blog_posts :
        d.status = "published" =>
            /\ \A d2 \in PostsWithId(blog_posts', d.id) : d2.status = "published"
            /\ d.id \notin SinkCalls]_vars

\* C14: when a sink call throws during publish, no further sink is called in
\* that invocation and the Draft ends it with status failed; and there is no
\* automatic retry: a tick enters publish only for the Draft it has just
\* inserted, once, so a later sink call for a failed Draft comes from the
\* publish_<id> callback.
C14_FailedNoRetry ==
    [][\A p \in Procs :
        /\ (proc[p].pc \in {"pub_notion", "pub_github"} /\ proc'[p] # proc[p]
                /\ SinkCalls = {}) =>
              proc'[p].pc = "pub_failed"
        /\ (proc[p].pc = "pub_failed" /\ proc'[p] # proc[p]) =>
              /\ \A d \in PostsWithId(blog_posts', proc[p].postId) : d.status = "failed"
              /\ SinkCalls = {}
              /\ proc'[p].pc \notin PublishPcs
        /\ (p \in Ticks /\ proc'[p].pc = "pub_begin" /\ proc'[p] # proc[p]) =>
              /\ proc[p].pc = "mark_batched"
              /\ proc'[p].postId = blog_posts_id_seq
              /\ \A d \in PostsWithId(blog_posts, blog_posts_id_seq) :
                    d.id \notin approve_invoked => d.status = "publishing"
        /\ (p \in Ticks /\ proc[p].pc \in PublishPcs) =>
              proc[p].postId = blog_posts_id_seq]_vars

\* C14 witness: GitHub threw after Notion had made a page for Draft 1, which
\* is failed; nobody pressed publish_1; a later tick has made and published
\* Draft 2, and Draft 1 still has its single page and no commit
C14_Witness ==
    /\ \A p \in Procs : proc[p].pc = "idle"
    /\ 1 \notin approve_invoked
    /\ \E d1, d2 \in blog_posts :
          /\ d1.id = 1 /\ d1.status = "failed"
          /\ d2.id = 2 /\ d2.status = "published"
    /\ Cardinality({i \in DOMAIN notion_pages : notion_pages[i] = 1}) = 1
    /\ 1 \notin Range(github_commits)

\* C15: a tick interrupted after the classification and before the update of
\* the processed flags, and run again, ends as one uninterrupted tick would:
\* once no tick is in flight and every row is marked, each row is in the
\* sourceMessageIds of exactly the Drafts one tick makes for it, at most one.
C15_RerunSameOutcome ==
    (/\ \A p \in Procs : proc[p].pc = "idle"
     /\ \A m \in pending_messages : m.is_processed) =>
        \A d1, d2 \in blog_posts :
            Range(d1.source_messages) \cap Range(d2.source_messages) # {} => d1 = d2

\* C16: no outcome of a tick (classifier error, store error, sink error,
\* notification error) stops the periodic timer: every tick ends, and after
\* it the batcher runs again, forever.
C16_TimerGoesOn ==
    /\ []<>(proc["tick1"].pc = "idle")
    /\ []<>(proc["tick1"].pc = "select")

\* C16 witness: a tick is running again after a tick whose publish failed
\* (the Draft is failed, with a Notion page and no commit) and while rows
\* that a failed classification left behind are still unprocessed
C16_Witness ==
    /\ proc["tick1"].pc = "select"
    /\ \E d \in blog_posts :
          /\ d.status = "failed"
          /\ d.id \in Range(notion_pages)
          /\ d.id \notin Range(github_commits)
    /\ \E m \in pending_messages : ~m.is_processed

\* C17: the answer to an edit question changes only the body of the Draft
\* the question was about: its status, title, mediaRefs, sourceMessageIds and
\* sink ids stay, no Draft is added or removed, and no other Draft, in
\* particular no Draft of another owner, is changed.
C17_EditBodyOnly ==
    [][\A u \in UserIds, t \in PrivateTexts :
        (userStates[u].type = "edit_post" /\ text_message(u, t)) =>
            /\ \A d \in blog_posts :
                  \E d2 \in blog_posts' :
                      /\ d2 = [d EXCEPT !.content = d2.content]
                      /\ (d.id # userStates[u].postId \/ d.user_id # u) => d2 = d
                      /\ (d.id = userStates[u].postId /\ d.user_id = u) =>
                            d2.content = Trim(t)
            /\ Cardinality(blog_posts') = Cardinality(blog_posts)
            /\ \A d2 \in blog_posts' : \E d \in blog_posts : d.id = d2.id]_vars

\* C17 witness: both owners have a pending Draft; the one of user 1 carries
\* the edited body, the one of user 2 the body the classifier wrote, and
\* user 2 has just been asked for new content of the Draft of user 1
C17_Witness ==
    \E d1, d2 \in blog_posts :
        /\ d1.user_id = 1 /\ d1.content = <<"E">> /\ d1.status = "pending"
        /\ d2.user_id = 2 /\ d2.content = <<"B">>
        /\ userStates[2] = [type |-> "edit_post", postId |-> d1.id]

\* the row of monitored_sources a queued row belongs to
SourceOf(m) == CHOOSE ms \in monitored_sources : ms.id = m.source_id

\* C19: the batcher only batches rows of the owner's active sources: a row
\* whose source is deactivated when the batch is selected is not passed to
\* the classifier, and a Draft is not made of rows whose source was
\* deactivated before the batch was selected.
C19_ActiveSourcesOnly ==
    [][\A p \in Ticks :
        (proc[p].pc = "select" /\ proc'[p].pc = "analyze") =>
            \A m \in Range(proc'[p].recentMessages) : SourceOf(m).is_active]_vars

\* a request of user u other than publish: a command, a button or an answer
RequestOf(u) ==
    \/ bot_start(u)
    \/ toggle_auto_publish(u)
    \/ set_combine_time(u)
    \/ \E sourceId \in UserIds : unsubscribe_command(u, sourceId)
    \/ \E postId \in 1..MaxPosts : reject_action(u, postId) \/ edit_action(u, postId)
    \/ \E rawText \in PrivateTexts : text_message(u, rawText)

\* C12: an action requested by a user who is not authorized is
\* short-circuited: the request, and every step of a publish it started,
\* leaves users, settings, sources, Drafts and the session state as they are.
C12_UnauthorizedNoMutation ==
    [][\A u \in UserIds :
        ~isAuthorized(u) =>
            /\ RequestOf(u) =>
                  UNCHANGED <<users, user_settings, monitored_sources, blog_posts,
                              userStates>>
            /\ \A p \in Handlers :
                  (proc[p].pc \in PublishPcs /\ proc[p].userId = u /\ proc'[p] # proc[p]) =>
                      UNCHANGED <<users, user_settings, monitored_sources, blog_posts,
                                  userStates>>]_vars

\* C20: the combine threshold stored for any user is always an integer
\* between 1 and 15 minutes.
C20_ThresholdRange ==
    \A u \in DOMAIN user_settings :
        user_settings[u].combine_threshold_minutes \in 1..15

\* the rows whose processed flag changes in this step
Flipped == {m \in pending_messages :
              \E m2 \in pending_messages' : m2.id = m.id /\ m2.is_processed # m.is_processed}

\* C21: on the informational path a row is marked processed only after the
\* Draft that references it has been inserted: the step that marks the rows of
\* an informational batch finds the Draft of the invocation inserted, with
\* every marked row in its sourceMessageIds; the insert step marks nothing,
\* and when the insert fails the invocation ends and no row of the batch is
\* marked processed; rows are marked by no other step of the batcher.
C21_MarkAfterInsert ==
    [][/\ \A p \in Ticks :
             /\ (proc[p].pc = "mark_batched" /\ proc'[p] # proc[p]) =>
                   \E d \in blog_posts :
                       /\ d.id = proc[p].postId
                       /\ \A m \in Flipped : m.id \in Range(d.source_messages)
             /\ (proc[p].pc = "insert" /\ proc'[p] # proc[p]) =>
                   /\ pending_messages' = pending_messages
                   /\ blog_posts' = blog_posts => proc'[p] = IdleProc
       /\ Flipped # {} =>
             \E p \in Ticks : /\ proc[p].pc \in {"mark_skipped", "mark_batched"}
                              /\ proc'[p] # proc[p]]_vars

\* C21 witness: a tick has ended that left one Draft, and the processed rows
\* are exactly the rows in its sourceMessageIds; another row of the queue (one
\* no batch was made of, or whose Draft insert failed) is unprocessed and in
\* no Draft
C21_Witness ==
    /\ proc["tick1"].pc = "idle"
    /\ blog_posts_id_seq = 1
    /\ \E d \in blog_posts :
          \A m \in pending_messages :
              m.id \in Range(d.source_messages) <=> m.is_processed
    /\ \E m \in pending_messages :
          /\ ~m.is_processed
          /\ \A d \in blog_posts : m.id \notin Range(d.source_messages)

\* C22: within one publish invocation each configured sink is attempted
\* whatever the outcome of the other sink: after the Notion call has settled,
\* with an id or with an error, the GitHub call is made when a repository is
\* configured.
C22_SinksIndependent ==
    [][\A p \in Procs :
        (/\ proc[p].pc = "pub_notion"
         /\ proc'[p] # proc[p]
         /\ Truthy(proc[p].settings.github_repo)) =>
            proc'[p].pc = "pub_github"]_vars

\* C23: the status of a Draft becomes failed only because a sink call threw:
\* in the step that sets a Draft to failed, the invocation of publish that
\* makes the step lacks the id of a configured sink; a notification that
\* cannot be delivered after every sink succeeded leaves the Draft published.
C23_FailedOnlyBySink ==
    [][\A d \in blog_posts : \A d2 \in PostsWithId(blog_posts', d.id) :
        (d.status # "failed" /\ d2.status = "failed") =>
            \E p \in Procs :
                /\ proc[p].pc = "pub_failed"
                /\ proc'[p] # proc[p]
                /\ proc[p].postId = d.id
                /\ ~AllSinksSucceeded(proc[p])]_vars

HasStatus(postId, statuses) == \E d \in blog_posts : d.id = postId /\ d.status \in statuses

\* C24: every Draft whose status is publishing eventually reaches status
\* published or failed, whoever called publish for it: no call, one with a
\* non-matching owner id included, leaves a Draft in publishing for ever.
C24_PublishingEnds ==
    \A postId \in 1..MaxPosts :
        HasStatus(postId, {"publishing"}) ~> HasStatus(postId, {"published", "failed"})

\* the Drafts inserted in this step
NewDrafts == {d \in blog_posts' : \A d0 \in blog_posts : d0.id # d.id}

\* C25: rows excluded by the window filter are left untouched by the tick:
\* when no unprocessed row of the owner is inside the window the owner is
\* skipped and the classifier is not called; the batch of a tick holds no row
\* older than the cutoff, and the tick marks only rows of its batch and puts
\* only rows of its batch into the Draft it creates, so the rows older than the
\* cutoff keep processed = false and are in no Draft of that tick.
C25_ExcludedUntouched ==
    [][\A p \in Ticks :
        /\ (proc[p].pc = "select" /\ proc'[p] # proc[p]) =>
              LET owner  == Head(proc[p].users)
                  cutoff == now - user_settings[owner].combine_threshold_minutes
                  old    == {m \in UnprocessedOf(owner) : m.timestamp < cutoff}
              IN  /\ UnprocessedOf(owner) \subseteq old => proc'[p].pc # "analyze"
                  /\ Range(proc'[p].recentMessages) \cap old = {}
                  /\ pending_messages' = pending_messages
                  /\ blog_posts' = blog_posts
        /\ (proc[p].pc \in {"analyze", "insert", "mark_skipped", "mark_batched"}
                /\ proc'[p] # proc[p]) =>
              /\ \A m \in Flipped : m.id \in BatchIds(proc[p])
              /\ \A d \in NewDrafts : Range(d.source_messages) \subseteq BatchIds(proc[p])
              /\ proc'[p].pc \in {"insert", "mark_skipped", "mark_batched"} =>
                    proc'[p].recentMessages = proc[p].recentMessages]_vars

\* C25 witness: the tick has ended and left a Draft of a row inside the
\* window; a row that was queued before it, with an earlier timestamp, was
\* outside the window: it is unprocessed and in no Draft
C25_Witness ==
    /\ proc["tick1"].pc = "idle"
    /\ \E d \in blog_posts, kept, excluded \in pending_messages :
          /\ kept.id \in Range(d.source_messages)
          /\ kept.is_processed
          /\ excluded.id < kept.id
          /\ excluded.timestamp < kept.timestamp
          /\ ~excluded.is_processed
          /\ \A d2 \in blog_posts : excluded.id \notin Range(d2.source_messages)

\* the ids the queue can give to its rows
QueueIds == 1..(Cardinality(MessageIds) * Cardinality(UserIds))

Queued(id, processed) == \E m \in pending_messages : m.id = id /\ m.is_processed = processed

\* C26: no queued message is lost: under fair periodic ticks and a classifier
\* that answers, every row of the queue is eventually marked processed (and so
\* was passed to the classifier), also a row that was queued for longer than
\* the owner's window before a tick looked at it.
C26_NoMessageLost ==
    \A id \in QueueIds : Queued(id, FALSE) ~> Queued(id, TRUE)

\* invocation p of processMessages holds a snapshot of the queue
HoldsSnapshot(p) == proc[p].pc \in {"analyze", "insert", "mark_skipped", "mark_batched"}

\* C27: ingestion running while a tick is in flight is safe: it only adds
\* unprocessed rows and leaves the rows of the queue and the batch of the tick
\* as they are; a row outside the batch of the tick (so every row inserted
\* after its snapshot) is neither marked by a step of the tick nor in the
\* Draft the tick inserts, and an unprocessed one is still in the result of
\* the query for unprocessed rows after the step.
C27_LateRowsSafe ==
    [][\A p \in Ticks :
        /\ (HoldsSnapshot(p) /\ proc' = proc) =>
              /\ pending_messages \subseteq pending_messages'
              /\ \A m \in pending_messages' \ pending_messages :
                    ~m.is_processed /\ m.id \notin BatchIds(proc[p])
        /\ (HoldsSnapshot(p) /\ proc'[p] # proc[p]) =>
              \A m \in pending_messages :
                  m.id \notin BatchIds(proc[p]) =>
                      /\ m \in pending_messages'
                      /\ \A d \in NewDrafts : m.id \notin Range(d.source_messages)
                      /\ ~m.is_processed => m \in UnprocessedOf(OwnerOf(m))']_vars

\* C27 witness: the tick has inserted its Draft and is about to mark its
\* batch; meanwhile a row was queued that is not in the batch although its
\* timestamp is inside the window of the batch: it is unprocessed
C27_Witness ==
    /\ proc["tick1"].pc = "mark_batched"
    /\ \E late \in pending_messages :
          /\ ~late.is_processed
          /\ \A b \in Range(proc["tick1"].recentMessages) :
                late.id > b.id /\ late.timestamp >= b.timestamp
          /\ \E d \in blog_posts :
                d.id = proc["tick1"].postId /\ late.id \notin Range(d.source_messages)

\* C28: the processed flag of a queued message is monotone and the row is
\* permanent: every row of the queue is still there after any step of the
\* ingestion, the batcher or the publish flow, under the same id and with the
\* same source, message id, text, mediaRefs, sender and timestamp; and a row
\* that is processed stays processed.
C28_ProcessedMonotone ==
    [][\A r \in pending_messages :
        \E r2 \in pending_messages' :
            /\ r2 = [r EXCEPT !.is_processed = r2.is_processed]
            /\ r.is_processed => r2.is_processed
            /\ \A r3 \in pending_messages' : r3.id = r.id => r3 = r2]_vars

\* C28 witness: a row is processed and in a Draft that the publish flow has
\* taken to published or failed; a message was queued after it, and the
\* clock has moved on since the processed row was dated, so that a second
\* delivery of its message carries another date
C28_Witness ==
    \E r, later \in pending_messages, d \in blog_posts :
        /\ r.is_processed
        /\ r.id \in Range(d.source_messages)
        /\ d.status \in {"published", "failed"}
        /\ later.id > r.id
        /\ now > r.timestamp + MaxLag

\* C29: a new Draft is inserted with status publishing if the owner's
\* autoPublish is true and pending otherwise; when it is true the tick, having
\* marked the batch, calls publish for that Draft and that owner, and a tick
\* calls publish in no other way; when it is false the tick goes on to the
\* next owner or ends, and no publish is started.
C29_StatusByAutoPublish ==
    [][\A p \in Ticks :
        /\ Moves(p, "insert", "mark_batched") =>
              /\ NewDrafts # {}
              /\ \A d \in NewDrafts :
                    /\ d.id = proc'[p].postId
                    /\ d.status = IF user_settings[d.user_id].auto_publish
                                  THEN "publishing" ELSE "pending"
        /\ (proc[p].pc = "mark_batched" /\ proc'[p] # proc[p]) =>
              LET owner == Head(proc[p].users)
              IN  IF user_settings[owner].auto_publish
                  THEN /\ proc'[p].pc = "pub_begin"
                       /\ proc'[p].postId = proc[p].postId
                       /\ proc'[p].userId = owner
                       /\ proc'[p].users = proc[p].users
                  ELSE /\ proc'[p].pc \in {"select", "idle"}
                       /\ blog_posts' = blog_posts
        /\ (proc'[p].pc = "pub_begin" /\ proc[p].pc # "pub_begin") =>
              /\ proc[p].pc = "mark_batched"
              /\ user_settings[Head(proc[p].users)].auto_publish]_vars

\* C29 witness: auto publish is on; the tick has inserted Draft 2 with status
\* publishing and marked its batch, and is entering publish for it, after a
\* tick before it did the same for Draft 1
C29_Witness ==
    /\ proc["tick1"].pc = "pub_begin"
    /\ proc["tick1"].postId = 2
    /\ user_settings[OWNER_USER_ID].auto_publish
    /\ \E d \in blog_posts :
          /\ d.id = 2 /\ d.status = "publishing"
          /\ \A i \in DOMAIN d.source_messages :
                \E m \in pending_messages : m.id = d.source_messages[i] /\ m.is_processed
    /\ \E d \in blog_posts : d.id = 1 /\ d.status \in {"published", "failed"}

\* how often x occurs in the sequence s
Occurrences(s, x) == Cardinality({i \in DOMAIN s : s[i] = x})

\* C30: a Draft created by a tick records exactly the kept batch: its
\* sourceMessageIds are the ids of the kept rows, each once and no other id,
\* and its mediaRefs are the mediaRefs of all kept rows together: every media
\* reference of a kept row is in the Draft, as often as the rows carry it, and
\* the Draft has no other.
C30_DraftRecordsBatch ==
    [][\A p \in Ticks :
        Moves(p, "insert", "mark_batched") =>
            LET kept == {m \in pending_messages : m.id \in BatchIds(proc[p])}
                refs == UNION {Range(m.media_urls) : m \in kept}
            IN  /\ Range(proc[p].recentMessages) = kept
                /\ NewDrafts # {}
                /\ \A d \in NewDrafts :
                      /\ Range(d.source_messages) = {m.id : m \in kept}
                      /\ Len(d.source_messages) = Cardinality(kept)
                      /\ Range(d.media_urls) = refs
                      /\ \A x \in refs :
                            Occurrences(d.media_urls, x) =
                                Cardinality({m \in kept : x \in Range(m.media_urls)})]_vars

\* C30 witness: a Draft of a batch of two rows, a document and then a photo,
\* that carries the links of both in the order of the batch
C30_Witness ==
    \E d \in blog_posts :
        /\ Len(d.source_messages) = 2
        /\ d.media_urls = <<getFileLink("f2"), getFileLink("f1")>>

\* the sources a message of chat chatId in the given shape is for: active,
\* of that chat, and not bound to another topic than the message's
SourcesFor(chatId, shape) ==
    {ms \in monitored_sources :
        /\ ms.is_active
        /\ ms.chat_id = chatId
        /\ ~(shape.message_thread_id # NULL /\ ms.topic_id # NULL
             /\ ms.topic_id # shape.message_thread_id)}

\* what is left of the message in the call for source ms: text or caption,
\* or an attachment whose link resolves
HasContent(shape, resolved) ==
    \/ shape.text # ""
    \/ shape.caption # ""
    \/ \E i \in DOMAIN shape.files : shape.files[i] \in resolved

\* C31: an inbound message is queued once for each active source matching
\* its chat and topic that has no row of the message yet and for which text,
\* caption or a resolvable attachment is left, and for no other source (none
\* that is inactive, of another chat or bound to a different topic); a
\* message with neither text nor resolvable media inserts no row, and the
\* handler changes nothing else.
C31_QueuedPerMatchingSource ==
    [][\A chatId \in SourceChats, shape \in MessageShapes, messageId \in FirstMessage,
         resolvedFor \in PerSourceResolve :
        (\E order \in Orderings(MatchingSources(chatId, shape.message_thread_id)) :
            handleIncomingMessage(chatId, InboundMessage(shape, messageId, now),
                                  order, resolvedFor)) =>
            LET targets == {ms \in SourcesFor(chatId, shape) :
                               /\ HasContent(shape, resolvedFor[ms.id])
                               /\ ~\E r \in pending_messages :
                                      r.source_id = ms.id /\ r.message_id = messageId}
                added   == pending_messages' \ pending_messages
            IN  /\ pending_messages \subseteq pending_messages'
                /\ {r.source_id : r \in added} = {ms.id : ms \in targets}
                /\ Cardinality(added) = Cardinality(targets)
                /\ \A r \in added : r.message_id = messageId /\ ~r.is_processed
                /\ monitored_sources' = monitored_sources]_vars

\* C31 witness: the captioned photo of topic t7 is queued for the chat-wide
\* source, without the photo, whose link did not resolve, and with it for the
\* t7 source; it is not queued for the t9 source although that is active
C31_Witness ==
    /\ \E r1, r2 \in pending_messages :
          /\ r1.source_id = 1 /\ r1.text = "c" /\ r1.media_urls = <<>>
          /\ r2.source_id = 2 /\ r2.text = "c" /\ r2.media_urls # <<>>
    /\ \A r \in pending_messages : r.source_id # 3
    /\ \E ms \in monitored_sources : ms.id = 3 /\ ms.is_active

\* the links of the attachments of files that resolve, in attachment order
ResolvedLinks(files, resolved) ==
    LET Resolves(f) == f \in resolved
        ok == SelectSeq(files, Resolves)
    IN  [i \in DOMAIN ok |-> getFileLink(ok[i])]

\* C32: a failure to resolve one attachment does not abort the ingestion of
\* the message: when text, caption or another attachment remains and the
\* queue has no row of the message yet, exactly one row is inserted, and its
\* mediaRefs are the links of exactly the attachments whose resolution
\* succeeded, in attachment order; when nothing remains no row is inserted.
C32_FailedAttachmentOmitted ==
    [][\A shape \in AttachmentShapes, messageId \in MessageIds,
         date \in Max(0, now - MaxLag)..now,
         resolvedFor \in PartialResolve, ms \in monitored_sources :
        handleIncomingMessage(ms.chat_id, InboundMessage(shape, messageId, date),
                              <<ms>>, resolvedFor) =>
            LET links == ResolvedLinks(shape.files, resolvedFor[ms.id])
                added == pending_messages' \ pending_messages
                fresh == ~\E r \in pending_messages :
                              r.source_id = ms.id /\ r.message_id = messageId
            IN  /\ pending_messages \subseteq pending_messages'
                /\ IF fresh /\ (shape.text # "" \/ shape.caption # "" \/ links # <<>>)
                   THEN /\ Cardinality(added) = 1
                        /\ \A r \in added :
                              /\ r.media_urls = links
                              /\ r.message_id = messageId
                              /\ r.text = IF shape.text # "" THEN shape.text
                                          ELSE IF shape.caption # "" THEN shape.caption
                                          ELSE NULL
                   ELSE added = {}]_vars

\* C32 witness: an animation without caption was queued with the link of its
\* second file only, the first did not resolve; and a captioned animation was
\* queued with the link of its first file only
C32_Witness ==
    \E r1, r2 \in pending_messages :
        /\ r1.text = NULL /\ r1.media_urls = <<getFileLink("f1")>>
        /\ r2.text = "g" /\ r2.media_urls = <<getFileLink("f2")>>

\* C33: reject(draftId) deletes the Draft when the requester owns it and
\* leaves every other Draft as it is; when the requester does not own it no
\* Draft is deleted or changed; and a rejected Draft is never published
\* afterwards: a sink is only ever called for a Draft that is in the store
\* (Draft ids are not reused, and only reject deletes).
C33_RejectedNeverPublished ==
    [][/\ \A u \in UserIds, postId \in 1..MaxPosts :
             reject_action(u, postId) =>
                 /\ \A d \in blog_posts :
                       IF d.id = postId /\ d.user_id = u THEN d \notin blog_posts'
                       ELSE d \in blog_posts'
                 /\ blog_posts' \subseteq blog_posts
       /\ \A id \in SinkCalls : \E d \in blog_posts : d.id = id]_vars

\* C34: sources are deactivated, never deleted, and only by their owner: a
\* row of monitored_sources stays, with its id, owner, chat and topic;
\* /unsubscribe changes nothing but the active flag of the source named, and
\* only when the requester owns it; and subscribing again to a chat the user
\* already has a source for re-activates that source, so that there is never
\* a second row for the same (owner, chat, topic).
C34_OneSourcePerChat ==
    [][/\ \A ms \in monitored_sources :
             \E ms2 \in monitored_sources' : ms2 = [ms EXCEPT !.is_active = ms2.is_active]
       /\ \A u \in UserIds, sourceId \in 1..MaxSources :
             unsubscribe_command(u, sourceId) =>
                 \A ms \in monitored_sources :
                     IF ms.id = sourceId /\ ms.user_id = u /\ isAuthorized(u)
                     THEN [ms EXCEPT !.is_active = FALSE] \in monitored_sources'
                     ELSE ms \in monitored_sources'
       /\ \A ms1, ms2 \in monitored_sources' :
             (/\ ms1.user_id = ms2.user_id
              /\ ms1.chat_id = ms2.chat_id
              /\ ms1.topic_id = ms2.topic_id) => ms1 = ms2]_vars

\* the answer text to the question asked of user u is refused
Refused(u, text) ==
    \/ /\ userStates[u].type = "set_combine_time"
       /\ (~JsNumber(text).isInteger \/ JsNumber(text).value <= 0)
    \/ /\ userStates[u].type = "set_github_repo"
       /\ ~RepoPattern(text)

\* C35: a waiting-for-input state is consumed by exactly one valid input:
\* after a valid text is applied to the field the question was about, the
\* state of that user is cleared; an invalid input (non-positive or
\* non-integer minutes, a repo not in owner/repo form) leaves the stored
\* preferences unchanged and the waiting state still set; and a text sent
\* when no question is pending changes nothing.
C35_StateConsumedByValidInput ==
    [][\A u \in UserIds, t \in SessionTexts :
        text_message(u, t) =>
            LET type == userStates[u].type
                text == Trim(t)
                mine == user_settings[u]
            IN  /\ \A v \in UserIds \ {u} :
                      userStates'[v] = userStates[v] /\ user_settings'[v] = user_settings[v]
                /\ IF type = "none" \/ Refused(u, text)
                   THEN /\ userStates'[u] = userStates[u]
                        /\ user_settings'[u] = mine
                   ELSE /\ userStates'[u] = NoUserState
                        /\ user_settings'[u] =
                              IF type = "set_combine_time"
                              THEN [mine EXCEPT !.combine_threshold_minutes =
                                                    JsNumber(text).value]
                              ELSE IF type = "set_notion_db"
                              THEN [mine EXCEPT !.notion_database_id = StringOf(text)]
                              ELSE [mine EXCEPT !.github_repo = StringOf(text)]]_vars

\* C35 witness: the owner was asked for the repository, answered with a
\* text that was refused or none yet, and is still asked, after an earlier
\* valid answer stored o/r; user 2 has stored a combine time of 2 minutes and
\* is asked nothing
C35_Witness ==
    /\ userStates[1].type = "set_github_repo"
    /\ user_settings[1].github_repo = "o/r"
    /\ user_settings[2].combine_threshold_minutes = 2
    /\ userStates[2] = NoUserState

\* C36: only the configured owner can change authorization: /authorize and
\* /revoke sent by any other user leave every is_authorized flag unchanged;
\* /start leaves every existing row of users as it is (a revoked user stays
\* revoked) and a row it adds is authorized only for the owner; and the flag
\* of an existing row changes in no step but an /authorize or /revoke of the
\* owner.
C36_OwnerOnlyAuthorization ==
    [][/\ \A fromId \in UserIds \ {OWNER_USER_ID}, u \in UserIds, granted \in BOOLEAN :
             authorize_command(fromId, u, granted) => users' = users
       /\ \A u \in UserIds :
             bot_start(u) =>
                 /\ \A v \in DOMAIN users : v \in DOMAIN users' /\ users'[v] = users[v]
                 /\ u \notin DOMAIN users =>
                       users'[u].is_authorized = (u = OWNER_USER_ID)
       /\ (\E v \in DOMAIN users :
              v \notin DOMAIN users' \/ users'[v].is_authorized # users[v].is_authorized) =>
             \E u \in UserIds, granted \in BOOLEAN :
                 authorize_command(OWNER_USER_ID, u, granted)]_vars

\* C36 witness: the owner has authorized user 2, who had sent /start, and has
\* revoked the owner's own authorization, which no /start has given back
C36_Witness ==
    /\ ~users[OWNER_USER_ID].is_authorized
    /\ 2 \in DOMAIN users
    /\ users[2].is_authorized
    /\ user_settings[2].auto_publish

============================================================================
